---- MODULE Spec2Model ----
(***************************************************************************)
(* A model of the resume / job-description matching engine:               *)
(*   matching_engine.py        scoring (experience, education, skills)    *)
(*   domain_classification.py  domain compatibility and adjustment        *)
(*   json_parser.py            extraction, repair and validation of LLM   *)
(*                             output                                     *)
(* Python values are modelled as tagged records, Python strings as tuples *)
(* of one-character strings, so that the string algorithms of the code    *)
(* (strip, lower, substring search, numeric parsing) are computed here as *)
(* the code computes them.                                                *)
(***************************************************************************)
EXTENDS Integers, Sequences, FiniteSets, TLC

VARIABLES
    call,   \* the call in progress: the function and its arguments as passed
    ret,    \* what the call returned (or Raised), NotCalled before it ran
    after,  \* the caller's argument objects as they are after the call
    prev    \* the previous call of the session and what it returned

vars == <<call, ret, after, prev>>

-----------------------------------------------------------------------------
(* Bounds of the model *)

\* years of experience range over -1 .. MaxYears
MaxYears == 3
\* longest list of skills / required skills in the wide slices
MaxSkills == 2
\* tokens of the texts that are enumerated in full
MaxTokens == 3

-----------------------------------------------------------------------------
(* Python values *)

PyNone == [t |-> "none"]
PyInt(n) == [t |-> "int", n |-> n]
PyStr(s) == [t |-> "str", s |-> s]
PyList(xs) == [t |-> "list", items |-> xs]
PyDict(f) == [t |-> "dict", d |-> f]
PySet(xs) == [t |-> "set", members |-> xs]

EmptyDict == PyDict(<<>>)

IsNone(v) == v.t = "none"
IsInt(v) == v.t = "int"
IsStr(v) == v.t = "str"
IsList(v) == v.t = "list"
IsDict(v) == v.t = "dict"
IsSet(v) == v.t = "set"

\* bool(v)
Truthy(v) ==
    CASE IsNone(v) -> FALSE
      [] IsInt(v) -> v.n # 0
      [] IsStr(v) -> v.s # <<>>
      [] IsList(v) -> v.items # <<>>
      [] IsDict(v) -> DOMAIN v.d # {}
      [] IsSet(v) -> v.members # <<>>
      [] v.t = "tuple" -> v.items # <<>>
      [] v.t = "bool" -> v.b
      [] v.t = "float" -> TRUE

\* k in v, for a dict v
HasKey(v, k) == k \in DOMAIN v.d

\* v.get(k, default), for a dict v
Get(v, k, default) == IF HasKey(v, k) THEN v.d[k] ELSE default

\* x or y
Or(x, y) == IF Truthy(x) THEN x ELSE y

\* a dict with one more (or one replaced) entry
DictSet(v, k, x) == PyDict([j \in (DOMAIN v.d) \cup {k} |-> IF j = k THEN x ELSE v.d[j]])

\* the outcome of a call that raised
Raised == [raised |-> TRUE]
NotCalled == [called |-> FALSE]

-----------------------------------------------------------------------------
(* Python strings: tuples of characters *)

UPPER == <<"A", "B", "C", "D", "E", "F", "G", "H", "I", "J", "K", "L", "M",
           "N", "O", "P", "Q", "R", "S", "T", "U", "V", "W", "X", "Y", "Z">>
LOWER == <<"a", "b", "c", "d", "e", "f", "g", "h", "i", "j", "k", "l", "m",
           "n", "o", "p", "q", "r", "s", "t", "u", "v", "w", "x", "y", "z">>
DIGITS == <<"0", "1", "2", "3", "4", "5", "6", "7", "8", "9">>

Range(s) == {s[i] : i \in DOMAIN s}

IsSpace(c) == c = " "
IsDigit(c) == c \in Range(DIGITS)
IsLowerAlpha(c) == c \in Range(LOWER)

\* c.lower()
LowerChar(c) ==
    IF c \in Range(UPPER) THEN LOWER[CHOOSE i \in DOMAIN UPPER : UPPER[i] = c] ELSE c

\* s.lower()
Lower(s) == [i \in DOMAIN s |-> LowerChar(s[i])]

RECURSIVE LStrip(_)
LStrip(s) == IF s # <<>> /\ IsSpace(Head(s)) THEN LStrip(Tail(s)) ELSE s

RECURSIVE RStrip(_)
RStrip(s) ==
    IF s # <<>> /\ IsSpace(s[Len(s)]) THEN RStrip(SubSeq(s, 1, Len(s) - 1)) ELSE s

\* s.strip()
Strip(s) == RStrip(LStrip(s))

\* sub in s
Contains(s, sub) ==
    \E i \in 0..(Len(s) - Len(sub)) : SubSeq(s, i + 1, i + Len(sub)) = sub

DigitValue(c) == (CHOOSE i \in DOMAIN DIGITS : DIGITS[i] = c) - 1

RECURSIVE DigitsValue(_, _)
DigitsValue(s, acc) ==
    IF s = <<>> THEN acc ELSE DigitsValue(Tail(s), 10 * acc + DigitValue(Head(s)))

\* str(n) for an integer n
RECURSIVE NatToStr(_)
NatToStr(n) == IF n < 10 THEN <<DIGITS[n + 1]>> ELSE NatToStr(n \div 10) \o <<DIGITS[(n % 10) + 1]>>
IntToStr(n) == IF n < 0 THEN <<"-">> \o NatToStr(-n) ELSE NatToStr(n)

\* float(s) for a string s: surrounding whitespace is ignored, then an optional
\* sign and decimal digits.  (Strings with a fraction or an exponent are outside
\* the vocabulary of the model; "inf" and "nan" are recognised apart.)
IsInfString(s) == Lower(Strip(s)) \in {<<"i", "n", "f">>, <<"i", "n", "f", "i", "n", "i", "t", "y">>}
IsNanString(s) == Lower(Strip(s)) = <<"n", "a", "n">>
ParseFloatStr(s) ==
    LET b == Strip(s)
        signed == b # <<>> /\ Head(b) \in {"-", "+"}
        ds == IF signed THEN Tail(b) ELSE b
    IN  IF ds # <<>> /\ \A i \in DOMAIN ds : IsDigit(ds[i])
        THEN [ok |-> TRUE,
              n |-> IF signed /\ Head(b) = "-" THEN -DigitsValue(ds, 0) ELSE DigitsValue(ds, 0)]
        ELSE [ok |-> FALSE]

\* float(v): ok with the number, or not ok (ValueError / TypeError)
ToFloat(v) ==
    CASE IsInt(v) -> [ok |-> TRUE, n |-> v.n]
      [] IsStr(v) -> ParseFloatStr(v.s)
      [] OTHER -> [ok |-> FALSE]

\* int(a / b) for b > 0: Python's int() truncates towards zero
TruncDiv(a, b) == IF a >= 0 THEN a \div b ELSE -((-a) \div b)

Min(a, b) == IF a <= b THEN a ELSE b
Max(a, b) == IF a >= b THEN a ELSE b

-----------------------------------------------------------------------------
(* Field names of the records, and string constants of the code *)

K_totalYearsExperience == <<"t", "o", "t", "a", "l", "Y", "e", "a", "r", "s", "E", "x", "p", "e", "r", "i", "e", "n", "c", "e">>
K_minExperienceYears == <<"m", "i", "n", "E", "x", "p", "e", "r", "i", "e", "n", "c", "e", "Y", "e", "a", "r", "s">>
K_education == <<"e", "d", "u", "c", "a", "t", "i", "o", "n">>
K_requiredEducation == <<"r", "e", "q", "u", "i", "r", "e", "d", "E", "d", "u", "c", "a", "t", "i", "o", "n">>
K_skills == <<"s", "k", "i", "l", "l", "s">>
K_requiredSkills == <<"r", "e", "q", "u", "i", "r", "e", "d", "S", "k", "i", "l", "l", "s">>
K_domain == <<"d", "o", "m", "a", "i", "n">>
K_degree == <<"d", "e", "g", "r", "e", "e">>
K_experience == <<"e", "x", "p", "e", "r", "i", "e", "n", "c", "e">>
K_name == <<"n", "a", "m", "e">>

S_Unknown == <<"U", "n", "k", "n", "o", "w", "n">>
S_not_specified == <<"n", "o", "t", " ", "s", "p", "e", "c", "i", "f", "i", "e", "d">>
S_Not_specified == <<"N", "o", "t", " ", "s", "p", "e", "c", "i", "f", "i", "e", "d">>

\* EDUCATION_HIERARCHY, in the order the dict declares (and iterates) its keys
EDUCATION_HIERARCHY == <<
    [key |-> <<"p", "h", "d">>, level |-> 4],
    [key |-> <<"d", "o", "c", "t", "o", "r", "a", "t", "e">>, level |-> 4],
    [key |-> <<"m", "a", "s", "t", "e", "r">>, level |-> 3],
    [key |-> <<"m", ".", "t", "e", "c", "h">>, level |-> 3],
    [key |-> <<"m", "b", "a">>, level |-> 3],
    [key |-> <<"b", "a", "c", "h", "e", "l", "o", "r">>, level |-> 2],
    [key |-> <<"b", ".", "t", "e", "c", "h">>, level |-> 2],
    [key |-> <<"b", ".", "s">>, level |-> 2],
    [key |-> <<"b", ".", "a">>, level |-> 2],
    [key |-> <<"d", "i", "p", "l", "o", "m", "a">>, level |-> 1],
    [key |-> <<"h", "i", "g", "h", " ", "s", "c", "h", "o", "o", "l">>, level |-> 0]
>>

-----------------------------------------------------------------------------
(* matching_engine.py: experience *)

\* the message template check_experience_match puts in "details"
ExperienceDetails(candidate_years, required_years) ==
    IF required_years = 0 THEN "no_experience_required_MATCHES"
    ELSE IF candidate_years >= required_years THEN "MATCHES"
    ELSE "partial_match"

\* a variant of ExperienceResult that scores the magnitude of the candidate's years
ExperienceResult_Magnitude(candidate_years, required_years) ==
    LET magnitude == IF candidate_years < 0 THEN -candidate_years ELSE candidate_years
        full == required_years = 0 \/ candidate_years >= required_years
        percentage ==
            IF full THEN 100
            ELSE IF required_years > 0 THEN TruncDiv(magnitude * 100, required_years)
            ELSE 0
        score0 ==
            IF full THEN 35
            ELSE IF required_years > 0 THEN TruncDiv(magnitude * 35, required_years)
            ELSE 0
    IN  [raised |-> FALSE,
         met |-> candidate_years >= required_years,
         candidateExperience |-> candidate_years,
         requiredExperience |-> required_years,
         details |-> ExperienceDetails(candidate_years, required_years),
         score |-> IF full THEN score0 ELSE Max(1, score0),
         percentage |-> Min(100, percentage)]

\* the body of check_experience_match once both years are numbers
ExperienceResult(candidate_years, required_years) ==
    LET met == candidate_years >= required_years
        full == required_years = 0 \/ candidate_years >= required_years
        percentage ==
            IF full THEN 100
            ELSE IF required_years > 0 THEN TruncDiv(candidate_years * 100, required_years)
            ELSE 0
        score0 ==
            IF full THEN 35
            ELSE IF required_years > 0 THEN TruncDiv(candidate_years * 35, required_years)
            ELSE 0
        score == IF full THEN score0 ELSE Max(1, score0)
    IN  [raised |-> FALSE,
         met |-> met,
         candidateExperience |-> candidate_years,
         requiredExperience |-> required_years,
         details |-> ExperienceDetails(candidate_years, required_years),
         score |-> score,
         percentage |-> Min(100, percentage)]

\* check_experience_match(resume_data, jd_data): a value that float() rejects on
\* either side sets both years to 0 (the bare except)
ExperienceOfFloats(c, r) ==
    IF c.ok /\ r.ok THEN ExperienceResult(c.n, r.n) ELSE ExperienceResult(0, 0)

check_experience_match(resume_data, jd_data) ==
    ExperienceOfFloats(
        ToFloat(Or(Get(resume_data, K_totalYearsExperience, PyInt(0)), PyInt(0))),
        ToFloat(Or(Get(jd_data, K_minExperienceYears, PyInt(0)), PyInt(0))))

-----------------------------------------------------------------------------
(* matching_engine.py: education *)

\* str(v) for the values the model passes to it
Str(v) ==
    CASE IsStr(v) -> v.s
      [] IsInt(v) -> IntToStr(v.n)

\* the first key of EDUCATION_HIERARCHY that occurs in degree_lower, 0 if none
RECURSIVE FirstHierarchyMatch(_, _)
FirstHierarchyMatch(degree_lower, i) ==
    IF i > Len(EDUCATION_HIERARCHY) THEN 0
    ELSE IF Contains(degree_lower, EDUCATION_HIERARCHY[i].key) THEN i
    ELSE FirstHierarchyMatch(degree_lower, i + 1)

\* normalize_education(degree): the normalized text and the level
normalize_education(degree) ==
    IF ~Truthy(degree) THEN [norm |-> S_not_specified, level |-> 0]
    ELSE LET degree_lower == Strip(Lower(Str(degree)))
             i == FirstHierarchyMatch(degree_lower, 1)
         IN  IF i > 0
             THEN [norm |-> EDUCATION_HIERARCHY[i].key, level |-> EDUCATION_HIERARCHY[i].level]
             ELSE [norm |-> degree_lower, level |-> 0]

\* the degree text of one education entry
EducationDegreeStr(edu_item) ==
    IF IsDict(edu_item) THEN Get(edu_item, K_degree, PyStr(S_not_specified))
    ELSE IF Truthy(edu_item) THEN PyStr(Str(edu_item))
    ELSE PyStr(S_not_specified)

\* the loop over education_list: the highest level and the degree that set it
RECURSIVE HighestEducation(_, _, _)
HighestEducation(items, highest_level, highest_degree) ==
    IF items = <<>> THEN [level |-> highest_level, degree |-> highest_degree]
    ELSE LET degree_str == EducationDegreeStr(Head(items))
             level == normalize_education(degree_str).level
         IN  IF level > highest_level
             THEN HighestEducation(Tail(items), level, degree_str)
             ELSE HighestEducation(Tail(items), highest_level, highest_degree)

EducationDetails(candidate_level, required_level, required_degree) ==
    IF required_level = 0 \/ required_degree = PyStr(S_not_specified)
    THEN "no_education_required_MATCHES"
    ELSE IF candidate_level > required_level THEN "OVERQUALIFIED"
    ELSE IF candidate_level = required_level THEN "MATCHES"
    ELSE "partial_match"

\* the result of check_education_match once the candidate's highest degree and the
\* required level are known
EducationResult(candidate_level, candidate_degree, required_degree, required_level, full) ==
    [raised |-> FALSE,
     met |-> candidate_level >= required_level,
     candidateDegree |-> candidate_degree,
     requiredDegree |-> required_degree,
     details |-> EducationDetails(candidate_level, required_level, required_degree),
     score |-> IF full THEN 25
               ELSE IF required_level > 0
               THEN Max(1, TruncDiv(candidate_level * 25, required_level))
               ELSE 1,
     percentage |-> IF full THEN 100
                    ELSE IF required_level > 0
                    THEN Min(100, TruncDiv(candidate_level * 100, required_level))
                    ELSE 0,
     isOverqualified |-> candidate_level > required_level /\ required_level > 0]

\* the branch of check_education_match that gives the full score
EducationFull(candidate_level, required_degree, required_level) ==
    required_level = 0 \/ required_degree = PyStr(S_not_specified)
        \/ candidate_level >= required_level

EducationOfHighest(highest, required_degree, required_level) ==
    EducationResult(highest.level, highest.degree, required_degree, required_level,
                    EducationFull(highest.level, required_degree, required_level))

\* the highest degree of education_list: only a non-empty list is looked at
HighestOfList(education_list) ==
    IF IsList(education_list) /\ Truthy(education_list)
    THEN HighestEducation(education_list.items, 0, PyStr(S_not_specified))
    ELSE [level |-> 0, degree |-> PyStr(S_not_specified)]

EducationOfRequired(highest, required_degree) ==
    EducationOfHighest(highest, required_degree, normalize_education(required_degree).level)

\* check_education_match(resume_data, jd_data)
check_education_match(resume_data, jd_data) ==
    EducationOfRequired(HighestOfList(Get(resume_data, K_education, PyList(<<>>))),
                        Get(jd_data, K_requiredEducation, PyStr(S_not_specified)))

-----------------------------------------------------------------------------
(* matching_engine.py: skill matching *)

IsSkillChar(c) == IsLowerAlpha(c) \/ IsDigit(c) \/ IsSpace(c)

\* ' '.join(s.split()): no leading or trailing blanks, runs of blanks collapsed
RECURSIVE CollapseSpaces(_)
CollapseSpaces(s) ==
    LET b == LStrip(s)
    IN  IF b = <<>> THEN <<>>
        ELSE IF IsSpace(Head(b)) THEN CollapseSpaces(b)
        ELSE LET rest == Tail(b)
             IN  IF rest # <<>> /\ IsSpace(Head(rest))
                 THEN (IF LStrip(rest) = <<>> THEN <<Head(b)>>
                       ELSE <<Head(b), " ">> \o CollapseSpaces(LStrip(rest)))
                 ELSE <<Head(b)>> \o CollapseSpaces(rest)

\* normalize_skill(skill), for a string
normalize_skill(skill) ==
    IF skill = <<>> THEN <<>>
    ELSE CollapseSpaces(SelectSeq(Strip(Lower(skill)), IsSkillChar))

\* SKILL_ANALOGY of skills_analogy.py: the groups of equivalent skill names
SKILL_ANALOGY ==
    << {<<"r", "e", "a", "c", "t">>, <<"r", "e", "a", "c", "t", "j", "s">>} >>

\* get_skill_group(skill): the index of the group that holds the skill, 0 if none
GroupOf(name) ==
    IF \E g \in DOMAIN SKILL_ANALOGY : name \in SKILL_ANALOGY[g]
    THEN CHOOSE g \in DOMAIN SKILL_ANALOGY : name \in SKILL_ANALOGY[g]
    ELSE 0
get_skill_group(skill) == GroupOf(normalize_skill(skill))

\* the length of the common prefix of a[i..ahi] and b[j..bhi]
RECURSIVE CommonPrefix(_, _, _, _, _, _)
CommonPrefix(a, i, ahi, b, j, bhi) ==
    IF i <= ahi /\ j <= bhi /\ a[i] = b[j]
    THEN 1 + CommonPrefix(a, i + 1, ahi, b, j + 1, bhi)
    ELSE 0

\* the least element of a non-empty set of integers, and the greatest
Least(S) == CHOOSE x \in S : \A y \in S : x <= y
Greatest(S) == CHOOSE x \in S : \A y \in S : y <= x

\* the block of the given size that starts earliest in a, then earliest in b;
\* size[i][j] is the length of the common run starting at a[i] and b[j]
EarliestInB(size, i, js, longest) ==
    [i |-> i, j |-> Least({j \in js : size[i][j] = longest}), size |-> longest]
EarliestBlock(size, is, js, longest) ==
    EarliestInB(size, Least({i \in is : \E j \in js : size[i][j] = longest}), js, longest)
LongestBlock(size, is, js) ==
    EarliestBlock(size, is, js, Greatest({size[i][j] : i \in is, j \in js}))

\* SequenceMatcher.find_longest_match(alo, ahi, blo, bhi) without junk: the longest
\* matching block, the one starting earliest in a, then earliest in b
find_longest_match(a, alo, ahi, b, blo, bhi) ==
    LongestBlock([i \in alo..ahi |-> [j \in blo..bhi |-> CommonPrefix(a, i, ahi, b, j, bhi)]],
                 alo..ahi, blo..bhi)

\* the total size of SequenceMatcher.get_matching_blocks() over a[alo..ahi], b[blo..bhi]:
\* the longest block m, and the blocks to its left and to its right
RECURSIVE MatchingSize(_, _, _, _, _, _)
BlocksAround(a, alo, ahi, b, blo, bhi, m) ==
    IF m.size = 0 THEN 0
    ELSE MatchingSize(a, alo, m.i - 1, b, blo, m.j - 1)
         + m.size
         + MatchingSize(a, m.i + m.size, ahi, b, m.j + m.size, bhi)
MatchingSize(a, alo, ahi, b, blo, bhi) ==
    IF alo > ahi \/ blo > bhi THEN 0
    ELSE BlocksAround(a, alo, ahi, b, blo, bhi, find_longest_match(a, alo, ahi, b, blo, bhi))

\* SequenceMatcher(None, a, b).ratio() as the fraction 2 * M / T
SequenceRatio(a, b) ==
    IF Len(a) + Len(b) = 0 THEN [num |-> 1, den |-> 1]
    ELSE [num |-> 2 * MatchingSize(a, 1, Len(a), b, 1, Len(b)), den |-> Len(a) + Len(b)]

\* fractions: comparison, and round(x, 2) in hundredths (ties to even)
FracGE(x, y) == x.num * y.den >= y.num * x.den
FracGT(x, y) == x.num * y.den > y.num * x.den
Frac(n, d) == [num |-> n, den |-> d]
RoundHundredths(x) ==
    LET q == (100 * x.num) \div x.den
        r2 == 2 * ((100 * x.num) % x.den)
    IN  IF r2 > x.den \/ (r2 = x.den /\ q % 2 = 1) THEN q + 1 ELSE q

\* strategies 3 and 4 of find_skill_match: fuzzy, then substring
FuzzyOrSubstring(cand_norm, req_norm, similarity) ==
    IF FracGE(similarity, Frac(70, 100))
    THEN [is_match |-> TRUE, type |-> "fuzzy", confidence |-> similarity]
    ELSE IF Len(req_norm) > 3 /\ Len(cand_norm) > 3
            /\ (Contains(req_norm, cand_norm) \/ Contains(cand_norm, req_norm))
    THEN [is_match |-> TRUE, type |-> "substring", confidence |-> Frac(88, 100)]
    ELSE [is_match |-> FALSE, type |-> "no_match", confidence |-> Frac(0, 1)]

\* strategy 2: both skills in the same group of SKILL_ANALOGY
SameSkillGroup(cand_group, req_group) ==
    cand_group # 0 /\ req_group # 0 /\ cand_group = req_group

\* the strategies of find_skill_match in their order, on the normalized names
MatchNormalized(candidate_skill, required_skill, cand_norm, req_norm) ==
    IF cand_norm = <<>> \/ req_norm = <<>>
    THEN [is_match |-> FALSE, type |-> "invalid", confidence |-> Frac(0, 1)]
    ELSE IF cand_norm = req_norm
    THEN [is_match |-> TRUE, type |-> "exact", confidence |-> Frac(1, 1)]
    ELSE IF SameSkillGroup(get_skill_group(candidate_skill), get_skill_group(required_skill))
    THEN [is_match |-> TRUE, type |-> "analogy", confidence |-> Frac(95, 100)]
    ELSE FuzzyOrSubstring(cand_norm, req_norm, SequenceRatio(cand_norm, req_norm))

\* find_skill_match(candidate_skill, required_skill), similarity_threshold = 0.70
find_skill_match(candidate_skill, required_skill) ==
    MatchNormalized(candidate_skill, required_skill,
                    normalize_skill(candidate_skill), normalize_skill(required_skill))

-----------------------------------------------------------------------------
(* matching_engine.py: skills *)

\* what "for x in v" iterates over; not ok is the TypeError of a value that
\* cannot be iterated
Iterate(v) ==
    CASE IsList(v) -> [ok |-> TRUE, items |-> v.items]
      [] IsSet(v) -> [ok |-> TRUE, items |-> v.members]
      [] IsStr(v) -> [ok |-> TRUE, items |-> [i \in DOMAIN v.s |-> PyStr(<<v.s[i]>>)]]
      [] IsNone(v) \/ IsInt(v) -> [ok |-> FALSE]

\* skill.get('name', '').strip(): not ok is the AttributeError of .strip() on a
\* name that is not a string
StripName(n) == IF IsStr(n) THEN [ok |-> TRUE, s |-> Strip(n.s)] ELSE [ok |-> FALSE]

\* the name check_skills_match takes from one entry of resume.skills
CandidateSkillName(skill) ==
    IF IsDict(skill) THEN StripName(Get(skill, K_name, PyStr(<<>>)))
    ELSE IF Truthy(skill) THEN [ok |-> TRUE, s |-> Strip(Str(skill))]
    ELSE [ok |-> TRUE, s |-> <<>>]

\* the loop that fills candidate_skills; n is the name of the first item
RECURSIVE CandidateSkills(_, _)
AppendCandidate(items, acc, n) ==
    IF ~n.ok THEN [ok |-> FALSE]
    ELSE CandidateSkills(Tail(items), IF n.s # <<>> THEN Append(acc, n.s) ELSE acc)
CandidateSkills(items, acc) ==
    IF items = <<>> THEN [ok |-> TRUE, names |-> acc]
    ELSE AppendCandidate(items, acc, CandidateSkillName(Head(items)))

\* [str(s).strip() for s in required_skills_list if s and str(s).strip()]
RECURSIVE RequiredSkills(_)
RequiredSkills(items) ==
    IF items = <<>> THEN <<>>
    ELSE (IF Truthy(Head(items)) /\ Strip(Str(Head(items))) # <<>>
          THEN <<Strip(Str(Head(items)))>> ELSE <<>>)
         \o RequiredSkills(Tail(items))

NoSkillMatch == [found |-> FALSE, matched |-> <<>>, type |-> "none", confidence |-> Frac(0, 1)]

\* a variant of BetterMatch that keeps the latest of the matches of equal confidence
BetterMatch_Latest(best, cand_skill, m) ==
    IF ~m.is_match THEN best
    ELSE IF FracGE(m.confidence, best.confidence)
    THEN [found |-> TRUE, matched |-> cand_skill, type |-> m.type, confidence |-> m.confidence]
    ELSE [best EXCEPT !.found = TRUE]

\* one pass of the inner loop: the match m of cand_skill is kept when it is a
\* match of higher confidence than the best one so far
BetterMatch(best, cand_skill, m) ==
    IF ~m.is_match THEN best
    ELSE IF FracGT(m.confidence, best.confidence)
    THEN [found |-> TRUE, matched |-> cand_skill, type |-> m.type, confidence |-> m.confidence]
    ELSE [best EXCEPT !.found = TRUE]

\* the inner loop of check_skills_match: the best match of req_skill among the
\* candidate skills from index i on
RECURSIVE BestSkillMatch(_, _, _, _)
BestSkillMatch(candidate_skills, req_skill, i, best) ==
    IF i > Len(candidate_skills) THEN best
    ELSE BestSkillMatch(candidate_skills, req_skill, i + 1,
             BetterMatch(best, candidate_skills[i],
                         find_skill_match(candidate_skills[i], req_skill)))

\* a variant of RecordSkill that records a matched skill once, however often the
\* JD names it
RecordSkill_Once(acc, req_skill, b) ==
    IF b.found /\ \E i \in DOMAIN acc.matched : acc.matched[i] = req_skill THEN acc
    ELSE IF b.found
    THEN [acc EXCEPT !.matched = Append(@, req_skill),
                     !.details = Append(@, [required |-> req_skill,
                                            matched |-> b.matched,
                                            type |-> b.type,
                                            confidence |-> RoundHundredths(b.confidence)])]
    ELSE [acc EXCEPT !.missing = Append(@, req_skill)]

\* the end of one pass of the outer loop: req_skill goes to the matched or to the
\* missing skills
RecordSkill(acc, req_skill, b) ==
    IF b.found
    THEN [acc EXCEPT !.matched = Append(@, req_skill),
                     !.details = Append(@, [required |-> req_skill,
                                            matched |-> b.matched,
                                            type |-> b.type,
                                            confidence |-> RoundHundredths(b.confidence)])]
    ELSE [acc EXCEPT !.missing = Append(@, req_skill)]

\* the outer loop of check_skills_match over required_skills
RECURSIVE SkillLoop(_, _, _)
SkillLoop(candidate_skills, required_skills, acc) ==
    IF required_skills = <<>> THEN acc
    ELSE SkillLoop(candidate_skills, Tail(required_skills),
             RecordSkill(acc, Head(required_skills),
                         BestSkillMatch(candidate_skills, Head(required_skills), 1,
                                        NoSkillMatch)))

SkillsDetails(percentage) ==
    IF percentage = 0 THEN "no_matching_skills"
    ELSE IF percentage < 25 THEN "limited_match"
    ELSE IF percentage < 50 THEN "partial_match"
    ELSE IF percentage < 75 THEN "good_match"
    ELSE "excellent_match"

\* the result of check_skills_match when skills are required
SkillsResult(candidate_skills, required_skills, loop, percentage) ==
    [raised |-> FALSE,
     met |-> percentage >= 50,
     candidateSkillsCount |-> Len(loop.matched),
     requiredSkillsCount |-> Len(required_skills),
     percentage |-> percentage,
     matchedSkills |-> loop.matched,
     missingSkills |-> loop.missing,
     skillMatchDetails |-> loop.details,
     details |-> SkillsDetails(percentage),
     score |-> IF loop.matched # <<>>
               THEN Max(1, TruncDiv(Len(loop.matched) * 40, Len(required_skills)))
               ELSE 0,
     allCandidateSkills |-> candidate_skills]

SkillsOfLoop(candidate_skills, required_skills, loop) ==
    SkillsResult(candidate_skills, required_skills, loop,
                 TruncDiv(Len(loop.matched) * 100, Len(required_skills)))

\* check_skills_match from the two lists of names on
SkillsOfNames(candidate_skills, required_skills) ==
    IF required_skills = <<>>
    THEN [raised |-> FALSE,
          met |-> TRUE,
          candidateSkillsCount |-> Len(candidate_skills),
          requiredSkillsCount |-> 0,
          percentage |-> 100,
          matchedSkills |-> candidate_skills,
          missingSkills |-> <<>>,
          skillMatchDetails |-> <<>>,
          details |-> "no_skills_required_MATCHES",
          score |-> 40,
          allCandidateSkills |-> candidate_skills]
    ELSE SkillsOfLoop(candidate_skills, required_skills,
                      SkillLoop(candidate_skills, required_skills,
                                [matched |-> <<>>, missing |-> <<>>, details |-> <<>>]))

SkillsOfCandidates(cand, req_iter) ==
    IF ~cand.ok \/ ~req_iter.ok THEN Raised
    ELSE SkillsOfNames(cand.names, RequiredSkills(req_iter.items))

\* the two loops over the lists; Raised is the TypeError of a list that cannot be
\* iterated or the AttributeError of a name that is not a string
SkillsOfIterations(cand_iter, req_iter) ==
    IF ~cand_iter.ok THEN Raised
    ELSE SkillsOfCandidates(CandidateSkills(cand_iter.items, <<>>), req_iter)

\* check_skills_match(resume_data, jd_data)
check_skills_match(resume_data, jd_data) ==
    SkillsOfIterations(Iterate(Get(resume_data, K_skills, PyList(<<>>))),
                       Iterate(Get(jd_data, K_requiredSkills, PyList(<<>>))))

-----------------------------------------------------------------------------
(* domain_classification.py: compatibility and adjustment *)

\* the domains, in the order DOMAIN_CATEGORIES and the matrix declare them
DOMAIN_NAMES == <<
    <<"I", "T", "/", "S", "o", "f", "t", "w", "a", "r", "e">>,
    <<"B", "a", "c", "k", "e", "n", "d", " ", "D", "e", "v", "e", "l", "o", "p", "m", "e", "n", "t">>,
    <<"F", "r", "o", "n", "t", "e", "n", "d", " ", "D", "e", "v", "e", "l", "o", "p", "m", "e", "n", "t">>,
    <<"A", "I", "/", "M", "L", "/", "D", "a", "t", "a", " ", "S", "c", "i", "e", "n", "c", "e">>,
    <<"D", "e", "v", "O", "p", "s", "/", "C", "l", "o", "u", "d">>,
    <<"Q", "A", "/", "T", "e", "s", "t", "i", "n", "g">>,
    <<"F", "i", "n", "a", "n", "c", "e", "/", "A", "c", "c", "o", "u", "n", "t", "i", "n", "g">>,
    <<"H", "e", "a", "l", "t", "h", "c", "a", "r", "e">>,
    <<"S", "a", "l", "e", "s", "/", "M", "a", "r", "k", "e", "t", "i", "n", "g">>,
    <<"H", "R", "/", "R", "e", "c", "r", "u", "i", "t", "m", "e", "n", "t">>,
    <<"F", "i", "n", "a", "n", "c", "e", "/", "B", "a", "n", "k", "i", "n", "g">>
>>

\* DOMAIN_COMPATIBILITY_MATRIX[resume domain][jd domain], rows and columns in that order
DOMAIN_COMPATIBILITY_MATRIX == <<
    <<100, 95, 90, 75, 85, 80, 20, 15, 10, 10, 15>>,
    <<95, 100, 60, 80, 85, 75, 20, 15, 10, 10, 20>>,
    <<90, 60, 100, 40, 50, 70, 10, 10, 15, 10, 10>>,
    <<75, 80, 40, 100, 60, 50, 45, 50, 20, 10, 50>>,
    <<85, 85, 50, 60, 100, 70, 25, 20, 10, 10, 25>>,
    <<80, 75, 70, 50, 70, 100, 20, 20, 15, 10, 20>>,
    <<20, 20, 10, 45, 25, 20, 100, 30, 50, 40, 85>>,
    <<15, 15, 10, 50, 20, 20, 30, 100, 25, 20, 25>>,
    <<10, 10, 15, 20, 10, 15, 50, 25, 100, 70, 60>>,
    <<10, 10, 10, 10, 10, 10, 40, 20, 70, 100, 40>>,
    <<15, 20, 10, 50, 25, 20, 85, 25, 60, 40, 100>>
>>

\* whether a value can be a dict key
Hashable(v) == ~(IsList(v) \/ IsDict(v) \/ IsSet(v))

DomainIndex(v) ==
    IF IsStr(v) /\ \E i \in DOMAIN DOMAIN_NAMES : DOMAIN_NAMES[i] = v.s
    THEN CHOOSE i \in DOMAIN DOMAIN_NAMES : DOMAIN_NAMES[i] = v.s
    ELSE 0

MatrixEntry(i, j) == IF i = 0 \/ j = 0 THEN 0 ELSE DOMAIN_COMPATIBILITY_MATRIX[i][j]

\* DOMAIN_COMPATIBILITY_MATRIX.get(resume_domain, {}).get(jd_domain, 0)
MatrixScore(resume_domain, jd_domain) ==
    MatrixEntry(DomainIndex(resume_domain), DomainIndex(jd_domain))

CompatibilityLevel(score) ==
    IF score >= 85 THEN "Perfect"
    ELSE IF score >= 60 THEN "Good"
    ELSE IF score >= 35 THEN "Acceptable"
    ELSE "Poor"

\* the message template of "details"
CompatibilityDetails(resume_domain, jd_domain, level) ==
    IF resume_domain = jd_domain THEN "same_domain_excellent_match"
    ELSE IF level = "Perfect" THEN "strong_alignment"
    ELSE IF level = "Good" THEN "reasonable_alignment"
    ELSE IF level = "Acceptable" THEN "moderate_shift"
    ELSE "significant_change"

CompatibilityOfLevel(resume_domain, jd_domain, score, level) ==
    [raised |-> FALSE, score |-> score, percentage |-> score, level |-> level,
     details |-> CompatibilityDetails(resume_domain, jd_domain, level)]

CompatibilityOfScore(resume_domain, jd_domain, score) ==
    CompatibilityOfLevel(resume_domain, jd_domain, score, CompatibilityLevel(score))

\* get_domain_compatibility(resume_domain, jd_domain); Raised is the TypeError of
\* a domain that cannot be a dict key
get_domain_compatibility(resume_domain, jd_domain) ==
    IF ~Truthy(resume_domain) \/ ~Truthy(jd_domain)
    THEN [raised |-> FALSE, score |-> 0, percentage |-> 0, level |-> "Unknown",
          details |-> "could_not_determine"]
    ELSE IF ~Hashable(resume_domain) \/ ~Hashable(jd_domain) THEN Raised
    ELSE CompatibilityOfScore(resume_domain, jd_domain, MatrixScore(resume_domain, jd_domain))

\* a variant of calculate_domain_adjustment_factor whose lowest factor is 1.25
calculate_domain_adjustment_factor_Bonus(domain_compatibility_score) ==
    IF domain_compatibility_score >= 85 THEN 100
    ELSE IF domain_compatibility_score >= 70 THEN 90
    ELSE IF domain_compatibility_score >= 60 THEN 80
    ELSE IF domain_compatibility_score >= 50 THEN 65
    ELSE IF domain_compatibility_score >= 35 THEN 45
    ELSE 125

\* a variant of calculate_domain_adjustment_factor with a lowest factor of 0.30
calculate_domain_adjustment_factor_Floor30(domain_compatibility_score) ==
    IF domain_compatibility_score >= 85 THEN 100
    ELSE IF domain_compatibility_score >= 70 THEN 90
    ELSE IF domain_compatibility_score >= 60 THEN 80
    ELSE IF domain_compatibility_score >= 50 THEN 65
    ELSE IF domain_compatibility_score >= 35 THEN 45
    ELSE 30

\* calculate_domain_adjustment_factor(score), in hundredths
calculate_domain_adjustment_factor(domain_compatibility_score) ==
    IF domain_compatibility_score >= 85 THEN 100
    ELSE IF domain_compatibility_score >= 70 THEN 90
    ELSE IF domain_compatibility_score >= 60 THEN 80
    ELSE IF domain_compatibility_score >= 50 THEN 65
    ELSE IF domain_compatibility_score >= 35 THEN 45
    ELSE 25

-----------------------------------------------------------------------------
(* matching_engine.py: calculate_match *)

\* Scores that the code holds as floats are held here as integers in units of
\* 1 / ScoreUnit: the three normalized sub-scores are multiples of 1/35, 1/25
\* and 1/40, so every raw score is a multiple of 1/1400.
ScoreUnit == 1400

\* a weights dict with the three keys calculate_match reads
Weights(e, d, s) ==
    PyDict((K_experience :> PyInt(e)) @@ (K_education :> PyInt(d)) @@ (K_skills :> PyInt(s)))
DefaultWeights == Weights(35, 25, 40)

\* sum(custom_weights.values()) over the keys ks, all values being numbers
RECURSIVE SumValues(_, _)
SumValues(f, ks) ==
    IF ks = {} THEN 0
    ELSE LET k == CHOOSE x \in ks : TRUE
         IN  f[k].n + SumValues(f, ks \ {k})

\* the weights calculate_match works with: the defaults when none are given or
\* when the given ones do not sum to 100; Raised is the TypeError of sum() over
\* a value that is not a number (the sum is taken outside the try block)
EffectiveWeights(custom_weights) ==
    IF IsNone(custom_weights) THEN DefaultWeights
    ELSE IF \E k \in DOMAIN custom_weights.d : ~IsInt(custom_weights.d[k]) THEN Raised
    ELSE IF SumValues(custom_weights.d, DOMAIN custom_weights.d) # 100 THEN DefaultWeights
    ELSE custom_weights

\* a variant of get_assessment whose thresholds are passed only by a score above
\* them
get_assessment_Above(score) ==
    IF score > 90 * ScoreUnit THEN "Excellent Match"
    ELSE IF score > 75 * ScoreUnit THEN "Great Match"
    ELSE IF score > 60 * ScoreUnit THEN "Good Match"
    ELSE IF score > 40 * ScoreUnit THEN "Moderate Match"
    ELSE "Poor Match"

\* ASSESSMENT_MAP and get_assessment(score), score in units of 1 / ScoreUnit
get_assessment(score) ==
    IF score >= 90 * ScoreUnit THEN "Excellent Match"
    ELSE IF score >= 75 * ScoreUnit THEN "Great Match"
    ELSE IF score >= 60 * ScoreUnit THEN "Good Match"
    ELSE IF score >= 40 * ScoreUnit THEN "Moderate Match"
    ELSE "Poor Match"

\* a variant of RawOverallScore without the min/max clamp
RawOverallScore_NoClamp(experience_score, education_score, skills_score, w) ==
    40 * experience_score * w.d[K_experience].n
    + 56 * education_score * w.d[K_education].n
    + 35 * skills_score * w.d[K_skills].n

\* sum of the normalized sub-scores, clamped to [0, 100]
RawOverallScore(experience_score, education_score, skills_score, w) ==
    LET raw == 40 * experience_score * w.d[K_experience].n
               + 56 * education_score * w.d[K_education].n
               + 35 * skills_score * w.d[K_skills].n
    IN  Min(100 * ScoreUnit, Max(0, raw))

\* the domain adjustment: int(raw * factor) below a compatibility of 85
AdjustedOverallScore(raw_overall_score, domain_score, domain_adjustment) ==
    IF domain_score < 85
    THEN ScoreUnit * ((raw_overall_score * domain_adjustment) \div (100 * ScoreUnit))
    ELSE raw_overall_score

\* a variant of Gaps that reports the domain only when no criterion fails
Gaps_DomainLast(domain_score, experience_result, education_result, skills_result) ==
    IF ~experience_result.met \/ ~education_result.met \/ ~skills_result.met
    THEN (IF ~experience_result.met THEN <<"Experience">> ELSE <<>>)
         \o (IF ~education_result.met THEN <<"Education">> ELSE <<>>)
         \o (IF ~skills_result.met THEN <<"Skills">> ELSE <<>>)
    ELSE IF domain_score < 60 THEN <<"Domain Shift">> ELSE <<>>

\* the gaps list, one tag for each entry the code appends
Gaps(domain_score, experience_result, education_result, skills_result) ==
    (IF domain_score < 60 THEN <<"Domain Shift">> ELSE <<>>)
    \o (IF ~experience_result.met THEN <<"Experience">> ELSE <<>>)
    \o (IF ~education_result.met THEN <<"Education">> ELSE <<>>)
    \o (IF ~skills_result.met THEN <<"Skills">> ELSE <<>>)

\* the MatchResult that calculate_match builds from the results of the criteria
MatchResult(resume_domain, jd_domain, domain_compat, domain_adjustment, experience_result, education_result, skills_result, raw_overall_score, overall_score) ==
    [raised |-> FALSE,
     criteriaAnalysis |->
        [domainMatch |-> [resumeDomain |-> resume_domain,
                          jdDomain |-> jd_domain,
                          compatibility |-> domain_compat.score,
                          level |-> domain_compat.level,
                          details |-> domain_compat.details,
                          adjustmentFactor |-> domain_adjustment],
         experienceMatch |-> [met |-> experience_result.met,
                              candidateExperience |-> experience_result.candidateExperience,
                              requiredExperience |-> experience_result.requiredExperience,
                              details |-> experience_result.details,
                              percentage |-> experience_result.percentage],
         educationMatch |-> [met |-> education_result.met,
                             candidateDegree |-> education_result.candidateDegree,
                             requiredDegree |-> education_result.requiredDegree,
                             details |-> education_result.details,
                             percentage |-> education_result.percentage,
                             isOverqualified |-> education_result.isOverqualified],
         skillsMatch |-> [met |-> skills_result.met,
                          candidateSkillsCount |-> skills_result.candidateSkillsCount,
                          requiredSkillsCount |-> skills_result.requiredSkillsCount,
                          percentage |-> skills_result.percentage,
                          matchedSkills |-> skills_result.matchedSkills,
                          missingSkills |-> skills_result.missingSkills,
                          skillMatchDetails |-> skills_result.skillMatchDetails,
                          allCandidateSkills |-> skills_result.allCandidateSkills,
                          details |-> skills_result.details]],
     sectionScores |-> [experienceMatch |-> experience_result.score,
                        educationMatch |-> education_result.score,
                        skillsMatch |-> skills_result.score],
     rawOverallScore |-> raw_overall_score,
     domainAdjustment |-> domain_adjustment,
     overallScore |-> overall_score,
     assessment |-> get_assessment(overall_score),
     gaps |-> Gaps(domain_compat.score, experience_result, education_result, skills_result)]

\* the score calculation, from the raw score on
MatchOfRaw(resume_domain, jd_domain, domain_compat, domain_adjustment, experience_result, education_result, skills_result, raw_overall_score) ==
    MatchResult(resume_domain, jd_domain, domain_compat, domain_adjustment,
                experience_result, education_result, skills_result, raw_overall_score,
                AdjustedOverallScore(raw_overall_score, domain_compat.score,
                                     domain_adjustment))

\* the criteria analysis and the score calculation; Raised is the exception of
\* check_skills_match or the KeyError of a weight that is missing
MatchOfCriteria(w, resume_domain, jd_domain, domain_compat, experience_result, education_result, skills_result) ==
    IF skills_result.raised THEN Raised
    ELSE IF \E k \in {K_experience, K_education, K_skills} : ~HasKey(w, k) THEN Raised
    ELSE MatchOfRaw(resume_domain, jd_domain, domain_compat,
                    calculate_domain_adjustment_factor(domain_compat.score),
                    experience_result, education_result, skills_result,
                    RawOverallScore(experience_result.score, education_result.score,
                                    skills_result.score, w))

\* the domain analysis and the three criteria
MatchOfDomains(w, resume_data, jd_data, resume_domain, jd_domain, domain_compat) ==
    IF domain_compat.raised THEN Raised
    ELSE MatchOfCriteria(w, resume_domain, jd_domain, domain_compat,
                         check_experience_match(resume_data, jd_data),
                         check_education_match(resume_data, jd_data),
                         check_skills_match(resume_data, jd_data))

\* the try block of calculate_match, with the weights w
MatchWithWeights(w, resume_data, jd_data, resume_domain, jd_domain) ==
    IF w = Raised THEN Raised
    ELSE IF ~Truthy(resume_data) \/ ~Truthy(jd_data) THEN Raised
    ELSE MatchOfDomains(w, resume_data, jd_data, resume_domain, jd_domain,
                        get_domain_compatibility(resume_domain, jd_domain))

\* calculate_match(resume_data, jd_data, custom_weights): the MatchResult, or
\* Raised when sum() raises or the try block raises (the except clause re-raises)
calculate_match(resume_data, jd_data, custom_weights) ==
    MatchWithWeights(EffectiveWeights(custom_weights), resume_data, jd_data,
                     Get(resume_data, K_domain, PyStr(S_Unknown)),
                     Get(jd_data, K_domain, PyStr(S_Unknown)))

-----------------------------------------------------------------------------
(* json_parser.py: the text of an LLM response *)

\* A text is None or a sequence of tokens; blanks and newlines separate tokens
\* and are not tokens themselves.  The kinds of tokens:
\*   punct  one of { } [ ] , :
\*   dq     "s"  a string in double quotes, s its content
\*   sq     's'  a string in single quotes
\*   word   an identifier outside quotes: null, None, role, Here
\*   num    a decimal integer
\*   fence  three backquotes, alone or followed by json
\* (String contents with quotes, backslashes, brackets, commas or colons inside
\* them are outside the vocabulary of the model.)
Tok(k, s) == [k |-> k, s |-> s]
Punct(c) == Tok("punct", <<c>>)
DQ(s) == Tok("dq", s)
SQ(s) == Tok("sq", s)
Word(s) == Tok("word", s)
Num(s) == Tok("num", s)
LBrace == Punct("{")
RBrace == Punct("}")
LBracket == Punct("[")
RBracket == Punct("]")
Comma == Punct(",")
Colon == Punct(":")
\* s of a fence is the word that follows the three backquotes
Fence == Tok("fence", <<>>)
FenceJson == Tok("fence", <<"j", "s", "o", "n">>)

PyText(toks) == [t |-> "text", toks |-> toks]
PyBool(b) == [t |-> "bool", b |-> b]
\* a float that is no number of the model: x is its str(), inf or nan
PyFloat(x) == [t |-> "float", x |-> x]
PyTuple(xs) == [t |-> "tuple", items |-> xs]
IsBool(v) == v.t = "bool"
IsFloat(v) == v.t = "float"
IsTuple(v) == v.t = "tuple"

\* not response_text, not json_str: None or the empty text
NoText(text) == IsNone(text) \/ text.toks = <<>>

NotFence(tok) == tok.k # "fence"
Positions(toks, p) == {i \in DOMAIN toks : toks[i] = p}

\* response_text[start_idx:end_idx + 1], None when a brace is missing or the
\* first { does not come before the last }
ExtractSpan(toks, starts, ends) ==
    IF starts = {} \/ ends = {} THEN PyNone
    ELSE IF Least(starts) >= Greatest(ends) THEN PyNone
    ELSE PyText(SubSeq(toks, Least(starts), Greatest(ends)))

ExtractFrom(toks) == ExtractSpan(toks, Positions(toks, LBrace), Positions(toks, RBrace))

\* extract_json_string(response_text): the markdown fences are removed, then
\* the text from the first { to the last } is taken
extract_json_string(response_text) ==
    IF NoText(response_text) THEN PyNone
    ELSE ExtractFrom(SelectSeq(response_text.toks, NotFence))

\* Fix 1: ' becomes "
Requote(toks) == [i \in DOMAIN toks |-> IF toks[i].k = "sq" THEN DQ(toks[i].s) ELSE toks[i]]

\* Fix 3: a comma directly before } or ] is removed
IsTrailingComma(toks, i) ==
    /\ toks[i] = Comma
    /\ i < Len(toks)
    /\ toks[i + 1] \in {RBrace, RBracket}

RECURSIVE Without(_, _, _)
Without(toks, drop, i) ==
    IF i > Len(toks) THEN <<>>
    ELSE IF i \in drop THEN Without(toks, drop, i + 1)
    ELSE <<toks[i]>> \o Without(toks, drop, i + 1)

DropTrailingCommas(toks) == Without(toks, {i \in DOMAIN toks : IsTrailingComma(toks, i)}, 1)

\* Fix 5: re.sub(r'\bfrom\b', to, s), inside and outside quotes
IsWordChar(c) == IsLowerAlpha(c) \/ c \in Range(UPPER) \/ IsDigit(c) \/ c = "_"

WordAt(s, i, from) ==
    /\ i + Len(from) - 1 <= Len(s)
    /\ SubSeq(s, i, i + Len(from) - 1) = from
    /\ (i = 1 \/ ~IsWordChar(s[i - 1]))
    /\ (i + Len(from) > Len(s) \/ ~IsWordChar(s[i + Len(from)]))

RECURSIVE ReplaceWord(_, _, _, _)
ReplaceWord(s, i, from, to) ==
    IF i > Len(s) THEN <<>>
    ELSE IF WordAt(s, i, from) THEN to \o ReplaceWord(s, i + Len(from), from, to)
    ELSE <<s[i]>> \o ReplaceWord(s, i + 1, from, to)

W_None == <<"N", "o", "n", "e">>
W_True == <<"T", "r", "u", "e">>
W_False == <<"F", "a", "l", "s", "e">>
W_null == <<"n", "u", "l", "l">>
W_true == <<"t", "r", "u", "e">>
W_false == <<"f", "a", "l", "s", "e">>
W_NaN == <<"N", "a", "N">>
W_Infinity == <<"I", "n", "f", "i", "n", "i", "t", "y">>

\* str(float("nan")), str(float("inf"))
S_nan == <<"n", "a", "n">>
S_inf == <<"i", "n", "f">>

ReplaceWordsIn(s) ==
    ReplaceWord(ReplaceWord(ReplaceWord(s, 1, W_None, W_null), 1, W_True, W_true),
                1, W_False, W_false)

ReplaceWords(toks) ==
    [i \in DOMAIN toks |->
        IF toks[i].k \in {"dq", "word"} THEN Tok(toks[i].k, ReplaceWordsIn(toks[i].s))
        ELSE toks[i]]

\* Fix 6: an identifier after { or , and before : is put in quotes
IsUnquotedKey(toks, i) ==
    /\ toks[i].k = "word"
    /\ i > 1
    /\ toks[i - 1] \in {LBrace, Comma}
    /\ i < Len(toks)
    /\ toks[i + 1] = Colon

QuoteKeys(toks) ==
    [i \in DOMAIN toks |-> IF IsUnquotedKey(toks, i) THEN DQ(toks[i].s) ELSE toks[i]]

\* fix_json_string(json_str).  Fixes 2 and 4 change blanks only, fixes 7 and 8
\* change backslashes and control characters only.
fix_json_string(toks) == QuoteKeys(ReplaceWords(DropTrailingCommas(Requote(toks))))

-----------------------------------------------------------------------------
(* json.loads and ast.literal_eval as the code uses them *)

\* Both read the text by the same grammar of values, in one of two modes:
\*   "json"    json.loads: keys are strings in double quotes; the words true,
\*             false, null, NaN and Infinity are values; there are no sets;
\*   "python"  ast.literal_eval: any value may be a key; { x, y } is a set;
\*             adjacent strings are joined; the top level may be a tuple; the
\*             words True, False and None are values and any other word is a
\*             name.
\* Reading gives a tree (a syntax error gives no tree); the tree is then turned
\* into a value.
Unread == [ok |-> FALSE]
Read(node, next) == [ok |-> TRUE, node |-> node, next |-> next]
NameNode(s) == [t |-> "name", s |-> s]
PairsNode(pairs) == [t |-> "pairs", pairs |-> pairs]

\* a decimal integer with an optional minus sign
NumValue(s) == IF Head(s) = "-" THEN -DigitsValue(Tail(s), 0) ELSE DigitsValue(s, 0)

WordNode(s, mode) ==
    IF mode = "json"
    THEN CASE s = W_true -> Read(PyBool(TRUE), 0)
           [] s = W_false -> Read(PyBool(FALSE), 0)
           [] s = W_null -> Read(PyNone, 0)
           [] s = W_NaN -> Read(PyFloat(S_nan), 0)
           [] s = W_Infinity -> Read(PyFloat(S_inf), 0)
           [] OTHER -> Unread
    ELSE CASE s = W_True -> Read(PyBool(TRUE), 0)
           [] s = W_False -> Read(PyBool(FALSE), 0)
           [] s = W_None -> Read(PyNone, 0)
           [] OTHER -> Read(NameNode(s), 0)

At(r, next) == IF r.ok THEN Read(r.node, next) ELSE Unread
AsList(r) == IF r.ok THEN Read(PyList(r.node), r.next) ELSE Unread
AsSet(r) == IF r.ok THEN Read(PySet(r.node), r.next) ELSE Unread

RECURSIVE ReadValue(_, _, _)
RECURSIVE ReadString(_, _, _, _)
RECURSIVE ReadItems(_, _, _, _, _)
RECURSIVE ReadPairValue(_, _, _, _, _)
RECURSIVE ReadPairKey(_, _, _, _)

\* a string; in Python, the strings that follow it are joined to it
ReadString(toks, i, mode, s) ==
    IF mode = "python" /\ i < Len(toks) /\ toks[i + 1].k \in {"dq", "sq"}
    THEN ReadString(toks, i + 1, mode, s \o toks[i + 1].s)
    ELSE Read(PyStr(s), i + 1)

\* Python allows one comma between the last item and the closing bracket
IsLastComma(toks, mode, closer, j) ==
    mode = "python" /\ j < Len(toks) /\ toks[j + 1] = closer

\* after an item of a list or a set: the closing bracket or a comma and an item
AfterItem(toks, mode, closer, acc, j) ==
    IF j > Len(toks) THEN Unread
    ELSE IF toks[j] = closer THEN Read(acc, j + 1)
    ELSE IF toks[j] # Comma THEN Unread
    ELSE IF IsLastComma(toks, mode, closer, j) THEN Read(acc, j + 2)
    ELSE ReadItems(toks, mode, closer, acc, ReadValue(toks, j + 1, mode))

ReadItems(toks, mode, closer, acc, r) ==
    IF r.ok THEN AfterItem(toks, mode, closer, Append(acc, r.node), r.next) ELSE Unread

ReadList(toks, i, mode) ==
    IF i > Len(toks) THEN Unread
    ELSE IF toks[i] = RBracket THEN Read(PyList(<<>>), i + 1)
    ELSE AsList(ReadItems(toks, mode, RBracket, <<>>, ReadValue(toks, i, mode)))

\* after a key: value pair: the closing brace or a comma and a pair
AfterPair(toks, mode, acc, j) ==
    IF j > Len(toks) THEN Unread
    ELSE IF toks[j] = RBrace THEN Read(PairsNode(acc), j + 1)
    ELSE IF toks[j] # Comma THEN Unread
    ELSE IF IsLastComma(toks, mode, RBrace, j) THEN Read(PairsNode(acc), j + 2)
    ELSE ReadPairKey(toks, mode, acc, ReadValue(toks, j + 1, mode))

ReadPairValue(toks, mode, acc, key, v) ==
    IF v.ok THEN AfterPair(toks, mode, Append(acc, <<key, v.node>>), v.next) ELSE Unread

IsKey(k, mode) == k.ok /\ (mode = "python" \/ IsStr(k.node))

ReadPairKey(toks, mode, acc, k) ==
    IF ~IsKey(k, mode) THEN Unread
    ELSE IF k.next >= Len(toks) THEN Unread
    ELSE IF toks[k.next] # Colon THEN Unread
    ELSE ReadPairValue(toks, mode, acc, k.node, ReadValue(toks, k.next + 1, mode))

\* after { and a first value: a colon makes it a dict, anything else a set
AfterFirst(toks, mode, r) ==
    IF ~r.ok THEN Unread
    ELSE IF r.next > Len(toks) THEN Unread
    ELSE IF toks[r.next] = Colon THEN ReadPairKey(toks, mode, <<>>, r)
    ELSE IF mode = "python" THEN AsSet(AfterItem(toks, mode, RBrace, <<r.node>>, r.next))
    ELSE Unread

ReadBrace(toks, i, mode) ==
    IF i > Len(toks) THEN Unread
    ELSE IF toks[i] = RBrace THEN Read(PairsNode(<<>>), i + 1)
    ELSE AfterFirst(toks, mode, ReadValue(toks, i, mode))

ReadToken(toks, i, mode, tok) ==
    CASE tok = LBrace -> ReadBrace(toks, i + 1, mode)
      [] tok = LBracket -> ReadList(toks, i + 1, mode)
      [] tok.k = "dq" -> ReadString(toks, i, mode, tok.s)
      [] tok.k = "sq" -> IF mode = "python" THEN ReadString(toks, i, mode, tok.s) ELSE Unread
      [] tok.k = "num" -> Read(PyInt(NumValue(tok.s)), i + 1)
      [] tok.k = "word" -> At(WordNode(tok.s, mode), i + 1)
      [] OTHER -> Unread

ReadValue(toks, i, mode) == IF i > Len(toks) THEN Unread ELSE ReadToken(toks, i, mode, toks[i])

\* the whole text as one value or, in Python, as values separated by commas
RECURSIVE ReadTop(_, _, _, _)
ReadTop(toks, mode, acc, r) ==
    IF ~r.ok THEN Unread
    ELSE IF r.next = Len(toks) + 1
         THEN Read(IF acc = <<>> THEN r.node ELSE PyTuple(Append(acc, r.node)), r.next)
    ELSE IF mode = "python" /\ toks[r.next] = Comma
         THEN ReadTop(toks, mode, Append(acc, r.node), ReadValue(toks, r.next + 1, mode))
    ELSE Unread

ReadText(toks, mode) == ReadTop(toks, mode, <<>>, ReadValue(toks, 1, mode))

\* The value of a tree: ok with the value, "ValueError" for a name (a
\* malformed node), "TypeError" for a key of a dict or a member of a set that
\* cannot be hashed.  The children are evaluated in the order of the text, a
\* key before its value and the value before the key is hashed.
Value(v) == [st |-> "ok", v |-> v]
Failed(st) == [st |-> st]

\* the key of the model's dicts for a Python key: the string itself, and for a
\* key that is not a string a mark followed by its text
KeyOf(k) ==
    CASE IsStr(k) -> k.s
      [] IsInt(k) -> <<"#">> \o IntToStr(k.n)
      [] IsNone(k) -> <<"#">> \o W_None
      [] IsBool(k) -> <<"#">> \o (IF k.b THEN W_True ELSE W_False)
      [] IsFloat(k) -> <<"#">> \o k.x

CanHash(v) == ~(IsList(v) \/ IsDict(v) \/ IsSet(v))

Member(xs, x) == \E i \in DOMAIN xs : xs[i] = x

RECURSIVE Eval(_)
RECURSIVE EvalItems(_, _, _, _)
RECURSIVE EvalPairs(_, _, _)

\* one more item of a list, a tuple or a set (hashed says the items are hashed)
AddItem(nodes, i, acc, hashed, x) ==
    IF x.st # "ok" THEN x
    ELSE IF hashed /\ ~CanHash(x.v) THEN Failed("TypeError")
    ELSE IF hashed /\ Member(acc, x.v) THEN EvalItems(nodes, i + 1, acc, hashed)
    ELSE EvalItems(nodes, i + 1, Append(acc, x.v), hashed)

EvalItems(nodes, i, acc, hashed) ==
    IF i > Len(nodes) THEN Value(acc) ELSE AddItem(nodes, i, acc, hashed, Eval(nodes[i]))

AddValue(pairs, i, acc, k, x) ==
    IF x.st # "ok" THEN x
    ELSE IF ~CanHash(k.v) THEN Failed("TypeError")
    ELSE EvalPairs(pairs, i + 1, (KeyOf(k.v) :> x.v) @@ acc)

AddPair(pairs, i, acc, k) ==
    IF k.st # "ok" THEN k ELSE AddValue(pairs, i, acc, k, Eval(pairs[i][2]))

EvalPairs(pairs, i, acc) ==
    IF i > Len(pairs) THEN Value(acc) ELSE AddPair(pairs, i, acc, Eval(pairs[i][1]))

Wrapped(x, t) ==
    IF x.st # "ok" THEN x
    ELSE CASE t = "list" -> Value(PyList(x.v))
           [] t = "tuple" -> Value(PyTuple(x.v))
           [] t = "set" -> Value(PySet(x.v))
           [] t = "pairs" -> Value(PyDict(x.v))

Eval(node) ==
    CASE node.t = "name" -> Failed("ValueError")
      [] node.t \in {"list", "tuple"} -> Wrapped(EvalItems(node.items, 1, <<>>, FALSE), node.t)
      [] node.t = "set" -> Wrapped(EvalItems(node.members, 1, <<>>, TRUE), node.t)
      [] node.t = "pairs" -> Wrapped(EvalPairs(node.pairs, 1, <<>>), node.t)
      [] OTHER -> Value(node)

EvalRead(r, syntax_error) == IF r.ok THEN Eval(r.node) ELSE Failed(syntax_error)

\* json.loads(s): a value or JSONDecodeError
json_loads(toks) == EvalRead(ReadText(toks, "json"), "JSONDecodeError")

\* ast.literal_eval(s): a value, SyntaxError, ValueError or TypeError
literal_eval(toks) == EvalRead(ReadText(toks, "python"), "SyntaxError")

-----------------------------------------------------------------------------
(* json_parser.py: parsing *)

\* Strategy 4: ValueError and SyntaxError are caught, any other error leaves
\* try_parse_json
ParsedLiteral(x) ==
    IF x.st = "ok" THEN x.v
    ELSE IF x.st \in {"ValueError", "SyntaxError"} THEN PyNone
    ELSE Raised

\* Strategies 2 to 4.  Strategy 3 reads the text of strategy 2 again with the
\* blanks after [ and before ] removed, which are no tokens: it fails as
\* strategy 2 failed
ParsedFixed(fixed_json, x) == IF x.st = "ok" THEN x.v ELSE ParsedLiteral(literal_eval(fixed_json))

\* Strategy 1
ParsedDirect(toks, x) ==
    IF x.st = "ok" THEN x.v
    ELSE ParsedFixed(fix_json_string(toks), json_loads(fix_json_string(toks)))

\* try_parse_json(json_str)
try_parse_json(json_str) ==
    IF NoText(json_str) THEN PyNone ELSE ParsedDirect(json_str.toks, json_loads(json_str.toks))

\* clean_json_response(response_text)
clean_json_response(response_text) ==
    IF NoText(response_text) THEN PyNone
    ELSE try_parse_json(extract_json_string(response_text))

-----------------------------------------------------------------------------
(* json_parser.py: default structures and validation *)

K_jobTitle == <<"j", "o", "b", "T", "i", "t", "l", "e">>
K_preferredSkills == <<"p", "r", "e", "f", "e", "r", "r", "e", "d", "S", "k", "i", "l", "l", "s">>
K_responsibilities == <<"r", "e", "s", "p", "o", "n", "s", "i", "b", "i", "l", "i", "t", "i", "e", "s">>
K_role == <<"r", "o", "l", "e">>
K_experienceDetails == <<"e", "x", "p", "e", "r", "i", "e", "n", "c", "e", "D", "e", "t", "a", "i", "l", "s">>
K_certifications == <<"c", "e", "r", "t", "i", "f", "i", "c", "a", "t", "i", "o", "n", "s">>
K_keyAchievements == <<"k", "e", "y", "A", "c", "h", "i", "e", "v", "e", "m", "e", "n", "t", "s">>
K_technologies == <<"t", "e", "c", "h", "n", "o", "l", "o", "g", "i", "e", "s">>
K_softSkills == <<"s", "o", "f", "t", "S", "k", "i", "l", "l", "s">>
K_languages == <<"l", "a", "n", "g", "u", "a", "g", "e", "s">>
K_summary == <<"s", "u", "m", "m", "a", "r", "y">>
K_proficiency == <<"p", "r", "o", "f", "i", "c", "i", "e", "n", "c", "y">>

S_Not_extracted == <<"N", "o", "t", " ", "e", "x", "t", "r", "a", "c", "t", "e", "d">>
S_Error_parsing == <<"E", "r", "r", "o", "r", " ", "p", "a", "r", "s", "i", "n", "g", " ", "t", "h", "i", "s", " ", "d", "o", "c", "u", "m", "e", "n", "t">>
S_unknown == <<"u", "n", "k", "n", "o", "w", "n">>
S_Resume == <<"R", "e", "s", "u", "m", "e">>
S_Job_Description == <<"J", "o", "b", " ", "D", "e", "s", "c", "r", "i", "p", "t", "i", "o", "n">>

\* get_default_structure(doc_type)
get_default_structure(doc_type) ==
    IF doc_type = S_Job_Description
    THEN PyDict((K_jobTitle :> PyStr(S_Not_extracted))
             @@ (K_requiredSkills :> PyList(<<>>))
             @@ (K_preferredSkills :> PyList(<<>>))
             @@ (K_minExperienceYears :> PyInt(0))
             @@ (K_requiredEducation :> PyStr(S_Not_specified))
             @@ (K_responsibilities :> PyList(<<>>)))
    ELSE PyDict((K_role :> PyStr(S_Not_extracted))
             @@ (K_totalYearsExperience :> PyInt(0))
             @@ (K_experienceDetails :> PyList(<<>>))
             @@ (K_skills :> PyList(<<>>))
             @@ (K_education :> PyList(<<>>))
             @@ (K_certifications :> PyList(<<>>))
             @@ (K_responsibilities :> PyList(<<>>))
             @@ (K_keyAchievements :> PyList(<<>>))
             @@ (K_technologies :> PyList(<<>>))
             @@ (K_softSkills :> PyList(<<>>))
             @@ (K_languages :> PyList(<<>>))
             @@ (K_summary :> PyStr(S_Error_parsing)))

\* s.replace(',', '')
RECURSIVE RemoveCommas(_)
RemoveCommas(s) ==
    IF s = <<>> THEN <<>>
    ELSE IF Head(s) = "," THEN RemoveCommas(Tail(s))
    ELSE <<Head(s)>> \o RemoveCommas(Tail(s))

\* int(float(s)) for a string s: float('inf') is a float and int() of it raises
\* OverflowError; int(float('nan')) raises ValueError
IntOfFloatStr(s, f) ==
    IF IsInfString(s) THEN Failed("OverflowError")
    ELSE IF IsNanString(s) THEN Failed("ValueError")
    ELSE IF f.ok THEN Value(f.n)
    ELSE Failed("ValueError")

\* int(float(str(v).replace(',', ''))): str() of None, of a bool and of a
\* list, dict, set or tuple is no number
IntOfValue(v) ==
    CASE IsInt(v) -> Value(v.n)
      [] IsStr(v) -> IntOfFloatStr(RemoveCommas(v.s), ParseFloatStr(RemoveCommas(v.s)))
      [] IsFloat(v) -> IntOfFloatStr(v.x, [ok |-> FALSE])
      [] OTHER -> Failed("ValueError")

\* data[key] = int(...), or 0 when ValueError, TypeError or AttributeError is
\* caught; an OverflowError is not caught here
NumberSet(data, key, x) ==
    IF x.st = "ok" THEN DictSet(data, key, PyInt(x.v)) ELSE DictSet(data, key, PyInt(0))

Overflows(data, key) == HasKey(data, key) /\ IntOfValue(data.d[key]).st = "OverflowError"

EnsureNumber(data, key) ==
    IF HasKey(data, key) THEN NumberSet(data, key, IntOfValue(data.d[key])) ELSE data

\* what one entry of skills adds to new_skills
NewSkill(skill) ==
    IF IsDict(skill)
    THEN IF ~HasKey(skill, K_name) THEN <<>>
         ELSE IF ~Truthy(skill.d[K_name]) THEN <<>>
         ELSE <<skill>>
    ELSE IF IsStr(skill)
    THEN <<PyDict((K_name :> skill) @@ (K_proficiency :> PyStr(S_unknown)))>>
    ELSE <<>>

RECURSIVE NewSkills(_, _)
NewSkills(skills, i) ==
    IF i > Len(skills) THEN <<>> ELSE NewSkill(skills[i]) \o NewSkills(skills, i + 1)

EnsureSkills(data) ==
    IF ~HasKey(data, K_skills) THEN data
    ELSE IF ~IsList(data.d[K_skills]) THEN DictSet(data, K_skills, PyList(<<>>))
    ELSE DictSet(data, K_skills, PyList(NewSkills(data.d[K_skills].items, 1)))

EnsureList(data, key) ==
    IF HasKey(data, key) /\ ~IsList(data.d[key]) THEN DictSet(data, key, PyList(<<>>)) ELSE data

\* [str(s) for s in xs if s]
RECURSIVE TruthyStrings(_, _)
TruthyStrings(xs, i) ==
    IF i > Len(xs) THEN <<>>
    ELSE IF Truthy(xs[i]) THEN <<PyStr(Str(xs[i]))>> \o TruthyStrings(xs, i + 1)
    ELSE TruthyStrings(xs, i + 1)

EnsureStringList(data, key) ==
    IF ~HasKey(data, key) THEN DictSet(data, key, PyList(<<>>))
    ELSE IF ~IsList(data.d[key]) THEN DictSet(data, key, PyList(<<>>))
    ELSE DictSet(data, key, PyList(TruthyStrings(data.d[key].items, 1)))

\* validate_data_types(data, doc_type) for a dict data.  The OverflowError of
\* the first statement leaves the try block: the outer except clause ends the
\* validation and data is returned as it is
validate_data_types(data, doc_type) ==
    IF doc_type = S_Resume
    THEN IF Overflows(data, K_totalYearsExperience) THEN data
         ELSE EnsureList(EnsureList(EnsureSkills(EnsureNumber(data, K_totalYearsExperience)),
                                    K_education),
                         K_experienceDetails)
    ELSE IF Overflows(data, K_minExperienceYears) THEN data
         ELSE EnsureStringList(EnsureStringList(EnsureNumber(data, K_minExperienceYears),
                                                K_requiredSkills),
                               K_preferredSkills)

\* required_fields
RequiredFields(doc_type) ==
    IF doc_type = S_Job_Description
    THEN {K_jobTitle, K_requiredSkills, K_minExperienceYears}
    ELSE {K_role, K_totalYearsExperience, K_skills, K_education}

\* [f for f in required_fields if f not in data or data.get(f) is None]
MissingFields(data, required_fields) ==
    {f \in required_fields : ~HasKey(data, f) \/ IsNone(data.d[f])}

\* defaults.update({k: v for k, v in data.items() if v is not None})
NotNoneKeys(data) == {k \in DOMAIN data.d : ~IsNone(data.d[k])}
Updated(defaults, data, ks) ==
    PyDict([k \in (DOMAIN defaults.d) \cup ks |-> IF k \in ks THEN data.d[k] ELSE defaults.d[k]])

\* parse_with_validation after clean_json_response returned data.  A set or a
\* tuple has neither get() nor items(): the list of missing fields or the merge
\* raises AttributeError
ValidatedData(data, doc_type) ==
    IF data = Raised THEN Raised
    ELSE IF ~Truthy(data) THEN get_default_structure(doc_type)
    ELSE IF ~IsDict(data) THEN Raised
    ELSE IF MissingFields(data, RequiredFields(doc_type)) # {}
    THEN validate_data_types(Updated(get_default_structure(doc_type), data, NotNoneKeys(data)),
                             doc_type)
    ELSE validate_data_types(data, doc_type)

\* parse_with_validation(response_text, doc_type)
parse_with_validation(response_text, doc_type) ==
    ValidatedData(clean_json_response(response_text), doc_type)

-----------------------------------------------------------------------------
(* The inputs of the model: the strings, field values and records that calls are
   drawn from *)

S_Python == <<"P", "y", "t", "h", "o", "n">>
S_pyton == <<"p", "y", "t", "o", "n">>
S_React == <<"R", "e", "a", "c", "t">>
S_ReactJS == <<"R", "e", "a", "c", "t", "J", "S">>
S_SQL == <<"S", "Q", "L">>
S_Java == <<"J", "a", "v", "a">>
S_JavaScript == <<"J", "a", "v", "a", "S", "c", "r", "i", "p", "t">>
S_Bachelor == <<"B", "a", "c", "h", "e", "l", "o", "r">>
S_Master == <<"M", "a", "s", "t", "e", "r">>
S_PhD == <<"P", "h", "D">>
S_Diploma == <<"D", "i", "p", "l", "o", "m", "a">>
S_High_School == <<"H", "i", "g", "h", " ", "S", "c", "h", "o", "o", "l">>
S_abc == <<"a", "b", "c">>
S_two == <<"2">>
S_Other == <<"O", "t", "h", "e", "r">>
S_IT_Software == <<"I", "T", "/", "S", "o", "f", "t", "w", "a", "r", "e">>
S_Sales_Marketing == <<"S", "a", "l", "e", "s", "/", "M", "a", "r", "k", "e", "t", "i", "n", "g">>
S_HR_Recruitment == <<"H", "R", "/", "R", "e", "c", "r", "u", "i", "t", "m", "e", "n", "t">>
S_Backend_Development == <<"B", "a", "c", "k", "e", "n", "d", " ", "D", "e", "v", "e", "l", "o", "p", "m", "e", "n", "t">>
S_Frontend_Development == <<"F", "r", "o", "n", "t", "e", "n", "d", " ", "D", "e", "v", "e", "l", "o", "p", "m", "e", "n", "t">>
S_Finance_Accounting == <<"F", "i", "n", "a", "n", "c", "e", "/", "A", "c", "c", "o", "u", "n", "t", "i", "n", "g">>

\* a field left out of a record
Absent == [t |-> "absent"]

\* the dict of the fields that are not Absent
Record(f) == PyDict([k \in {j \in DOMAIN f : f[j] # Absent} |-> f[k]])

Resume(years, edu, skills, dom) ==
    Record((K_totalYearsExperience :> years) @@ (K_education :> edu)
           @@ (K_skills :> skills) @@ (K_domain :> dom))

JD(years, edu, skills, dom) ==
    Record((K_minExperienceYears :> years) @@ (K_requiredEducation :> edu)
           @@ (K_requiredSkills :> skills) @@ (K_domain :> dom))

Degree(s) == PyDict(K_degree :> PyStr(s))
Skill(s) == PyDict(K_name :> PyStr(s))

\* all sequences over S of length 0 .. n
SeqsUpTo(S, n) == UNION {[1..k -> S] : k \in 0..n}

Years == {PyInt(n) : n \in (-1)..MaxYears}

CoreResumeYears == Years \cup {PyNone}
CoreResumeEducation ==
    {Absent, PyList(<<Degree(S_Bachelor)>>), PyList(<<Degree(S_Diploma), Degree(S_Master)>>)}
CoreResumeSkills ==
    {PyList(<<>>), PyList(<<Skill(S_Python)>>), PyList(<<Skill(S_React), PyStr(S_SQL)>>)}
CoreResumeDomains == {PyStr(S_IT_Software), PyStr(S_Sales_Marketing)}

CoreJDYears == {PyInt(0), PyInt(2), PyInt(MaxYears)}
CoreJDEducation == {PyStr(S_Not_specified), PyStr(S_Master), PyStr(S_PhD)}
CoreJDSkills ==
    {PyList(<<>>), PyList(<<PyStr(S_Python)>>),
     PyList(<<PyStr(S_ReactJS), PyStr(S_Python), PyStr(S_Java)>>)}
CoreJDDomains == {PyStr(S_IT_Software), PyStr(S_HR_Recruitment)}

CoreResumes ==
    {Resume(y, e, s, d) : y \in CoreResumeYears, e \in CoreResumeEducation,
                          s \in CoreResumeSkills, d \in CoreResumeDomains}
CoreJDs ==
    {JD(y, e, s, d) : y \in CoreJDYears, e \in CoreJDEducation,
                      s \in CoreJDSkills, d \in CoreJDDomains}

\* the weights arguments: none given, custom summing to 100 (one with a weight
\* above 100), and invalid ones
ValidCustomWeights ==
    {Weights(50, 25, 25), Weights(120, -10, -10), PyDict(K_experience :> PyInt(100))}
InvalidWeights ==
    {Weights(50, 50, 50), Weights(0, 0, 0), PyDict(K_experience :> PyInt(50)),
     PyDict((K_experience :> PyStr(<<"3", "5">>)) @@ (K_education :> PyInt(25))
            @@ (K_skills :> PyInt(40)))}
AllWeights == {PyNone} \cup ValidCustomWeights \cup InvalidWeights
CoreWeights == {PyNone, Weights(50, 25, 25), Weights(120, -10, -10), Weights(50, 50, 50)}

\* well-formed records the slices below vary one field of
SeniorResume ==
    Resume(PyInt(MaxYears), PyList(<<Degree(S_Master)>>), PyList(<<Skill(S_Python)>>),
           PyStr(S_IT_Software))
JuniorResume ==
    Resume(PyInt(1), PyList(<<Degree(S_Diploma)>>), PyList(<<Skill(S_React), Skill(S_SQL)>>),
           Absent)
BaseResumes == {SeniorResume, JuniorResume}
EasyJD ==
    JD(PyInt(2), PyStr(S_Bachelor), PyList(<<PyStr(S_Python)>>), PyStr(S_IT_Software))
HardJD ==
    JD(PyInt(MaxYears), PyStr(S_Master), PyList(<<PyStr(S_ReactJS), PyStr(S_Java)>>), Absent)
BaseJDs == {EasyJD, HardJD}

\* field values that are missing, null or of the wrong type
OddYears == {Absent, PyNone, PyStr(S_abc), PyStr(S_two), PyList(<<PyInt(1)>>)}
OddResumeEducation ==
    {PyNone, PyList(<<>>), PyStr(S_Bachelor), PyList(<<PyStr(S_PhD)>>),
     PyList(<<PyDict(K_degree :> PyNone)>>), PyList(<<EmptyDict, PyNone>>)}
OddJDEducation == {Absent, PyNone, PyInt(5), PyStr(S_High_School), PyStr(S_Bachelor)}
OddResumeSkills ==
    {Absent, PyNone, PyInt(3), PyStr(S_SQL), PyList(<<PyDict(K_name :> PyInt(5))>>),
     PyList(<<PyDict(K_name :> PyNone)>>), PyList(<<EmptyDict, PyStr(<<>>), PyNone>>),
     PyList(<<PyInt(5), PyStr(S_Python)>>)}
OddJDSkills ==
    {Absent, PyNone, PyInt(3), PyStr(S_SQL), PyList(<<PyNone, PyStr(<<>>), PyStr(<<" ">>)>>),
     PyList(<<PyInt(5), PyStr(S_Python)>>)}
OddDomains ==
    {PyNone, PyStr(<<>>), PyInt(5), PyStr(S_Other), PyStr(S_Unknown), PyList(<<PyStr(S_Other)>>)}

OddResumes ==
    {EmptyDict, PyNone}
    \cup {DictSet(b, K_totalYearsExperience, v) : b \in BaseResumes, v \in OddYears \ {Absent}}
    \cup {DictSet(b, K_education, v) : b \in BaseResumes, v \in OddResumeEducation}
    \cup {DictSet(b, K_skills, v) : b \in BaseResumes, v \in OddResumeSkills \ {Absent}}
    \cup {DictSet(b, K_domain, v) : b \in BaseResumes, v \in OddDomains}
    \cup {Resume(Absent, Absent, Absent, PyStr(S_IT_Software)),
          Resume(PyInt(2), Absent, Absent, Absent)}
OddJDs ==
    {EmptyDict, PyNone}
    \cup {DictSet(b, K_minExperienceYears, v) : b \in BaseJDs, v \in OddYears \ {Absent}}
    \cup {DictSet(b, K_requiredEducation, v) : b \in BaseJDs, v \in OddJDEducation \ {Absent}}
    \cup {DictSet(b, K_requiredSkills, v) : b \in BaseJDs, v \in OddJDSkills \ {Absent}}
    \cup {DictSet(b, K_domain, v) : b \in BaseJDs, v \in OddDomains}
    \cup {JD(Absent, Absent, Absent, PyStr(S_IT_Software)),
          JD(PyInt(2), Absent, Absent, Absent)}

\* every domain of the catalog, and "Unknown"
CatalogDomains == {PyStr(DOMAIN_NAMES[i]) : i \in DOMAIN DOMAIN_NAMES} \cup {PyStr(S_Unknown)}

\* lists of skills of length 0 .. MaxSkills
SkillEntries == {Skill(S_Python), Skill(S_ReactJS), PyStr(S_JavaScript), PyStr(S_pyton)}
RequiredSkillEntries == {PyStr(S_Python), PyStr(S_React), PyStr(S_Java), PyStr(S_SQL)}
SkillLists == {PyList(q) : q \in SeqsUpTo(SkillEntries, MaxSkills)}
RequiredSkillLists == {PyList(q) : q \in SeqsUpTo(RequiredSkillEntries, MaxSkills)}

MatchCall(r, j, w) ==
    [fn |-> "calculate_match", resume_data |-> r, jd_data |-> j, custom_weights |-> w]

\* the calls of calculate_match the model explores: the product of the core
\* field values, and slices that vary one pair of fields over a wider range
IsMatchCall(c) ==
    \/ \E r \in CoreResumes, j \in CoreJDs, w \in CoreWeights : c = MatchCall(r, j, w)
    \/ \E r \in OddResumes, j \in BaseJDs \cup OddJDs, w \in AllWeights : c = MatchCall(r, j, w)
    \/ \E r \in BaseResumes, j \in OddJDs, w \in AllWeights : c = MatchCall(r, j, w)
    \/ \E r \in BaseResumes, j \in BaseJDs, rd \in CatalogDomains, jd \in CatalogDomains,
          w \in AllWeights :
            c = MatchCall(DictSet(r, K_domain, rd), DictSet(j, K_domain, jd), w)
    \/ \E s \in SkillLists, q \in RequiredSkillLists :
            c = MatchCall(DictSet(SeniorResume, K_skills, s),
                          DictSet(EasyJD, K_requiredSkills, q), PyNone)

-----------------------------------------------------------------------------
(* The calls as a state machine *)

\* the argument objects of a call, as the caller holds them
Args(c) == <<c.resume_data, c.jd_data, c.custom_weights>>

\* a variant of ArgsAfterMatch in which the defaults are written into the
\* caller's weights dict instead of a new one
ArgsAfterMatch_InPlace(resume_data, jd_data, custom_weights) ==
    <<resume_data, jd_data,
      IF IsDict(custom_weights) /\ EffectiveWeights(custom_weights) = DefaultWeights
      THEN DefaultWeights ELSE custom_weights>>

\* the caller's argument objects after calculate_match: the function rebinds
\* its local custom_weights and builds new lists; it writes to no argument
ArgsAfterMatch(resume_data, jd_data, custom_weights) ==
    <<resume_data, jd_data, custom_weights>>

NoPrev == [called |-> FALSE]

InitMatch ==
    /\ IsMatchCall(call)
    /\ ret = NotCalled
    /\ after = Args(call)
    /\ prev = NoPrev

\* one call of calculate_match runs to its return or its raise
CalculateMatch ==
    /\ call.fn = "calculate_match"
    /\ ret = NotCalled
    /\ ret' = calculate_match(call.resume_data, call.jd_data, call.custom_weights)
    /\ after' = ArgsAfterMatch(call.resume_data, call.jd_data, call.custom_weights)
    /\ UNCHANGED <<call, prev>>

Next == CalculateMatch

Spec == InitMatch /\ [][Next]_vars

-----------------------------------------------------------------------------
(* A session of calls: one process calls calculate_match again and again *)

SessionResumes == {SeniorResume, JuniorResume, DictSet(JuniorResume, K_domain, PyStr(S_Sales_Marketing))}
SessionJDs == BaseJDs
SessionWeights == {PyNone, Weights(50, 25, 25), Weights(50, 50, 50), Weights(0, 0, 0)}

IsSessionCall(c) ==
    \E r \in SessionResumes, j \in SessionJDs, w \in SessionWeights : c = MatchCall(r, j, w)

Remembered(c, r) == [called |-> TRUE, call |-> c, ret |-> r]

InitSession ==
    /\ IsSessionCall(call)
    /\ ret = NotCalled
    /\ after = Args(call)
    /\ prev = NoPrev

\* the caller makes its next call; prev keeps one earlier call with its result
Invoke ==
    /\ ret # NotCalled
    /\ \E r \in SessionResumes, j \in SessionJDs, w \in SessionWeights :
            call' = MatchCall(r, j, w)
    /\ ret' = NotCalled
    /\ after' = Args(call')
    /\ prev' \in {prev, Remembered(call, ret)}

NextSession == Invoke \/ CalculateMatch

SpecSession == InitSession /\ [][NextSession]_vars

-----------------------------------------------------------------------------
(* check_experience_match called for one JD with one candidate value after
   another *)

ExperienceYears == (-1)..MaxYears

ExperienceCall(candidate, required) ==
    [fn |-> "check_experience_match",
     resume_data |-> PyDict(K_totalYearsExperience :> PyInt(candidate)),
     jd_data |-> PyDict(K_minExperienceYears :> PyInt(required)),
     custom_weights |-> PyNone]

CandidateYears(c) == c.resume_data.d[K_totalYearsExperience].n
RequiredYears(c) == c.jd_data.d[K_minExperienceYears].n

InitExperience ==
    /\ \E c \in ExperienceYears, r \in ExperienceYears : call = ExperienceCall(c, r)
    /\ ret = NotCalled
    /\ after = Args(call)
    /\ prev = NoPrev

CheckExperience ==
    /\ call.fn = "check_experience_match"
    /\ ret = NotCalled
    /\ ret' = check_experience_match(call.resume_data, call.jd_data)
    /\ UNCHANGED <<call, after, prev>>

\* the same JD is checked against another candidate value
NextCandidate ==
    /\ call.fn = "check_experience_match"
    /\ ret # NotCalled
    /\ \E c \in ExperienceYears : call' = ExperienceCall(c, RequiredYears(call))
    /\ ret' = NotCalled
    /\ after' = Args(call')
    /\ prev' = Remembered(call, ret)

NextExperience == CheckExperience \/ NextCandidate

SpecExperience == InitExperience /\ [][NextExperience]_vars

-----------------------------------------------------------------------------
(* Properties of calculate_match *)

Returned == ret # NotCalled /\ ret # Raised
PresentRecords == ~IsNone(call.resume_data) /\ ~IsNone(call.jd_data)
Units(n) == n * ScoreUnit

\* C1: every MatchResult that calculate_match returns, for whatever records,
\* weights and domains, has an overallScore between 0 and 100
C1_OverallScoreInRange ==
    (call.fn = "calculate_match" /\ Returned)
        => (ret.overallScore >= 0 /\ ret.overallScore <= Units(100))

\* the clamp acts: custom weights summing to 100 whose weighted sub-scores add
\* up to more than 100, and the call returned
C1_Witness ==
    /\ call.fn = "calculate_match"
    /\ Returned
    /\ call.custom_weights = Weights(120, -10, -10)
    /\ RawOverallScore_NoClamp(ret.sectionScores.experienceMatch,
                               ret.sectionScores.educationMatch,
                               ret.sectionScores.skillsMatch,
                               call.custom_weights) > Units(100)
    /\ ret.overallScore = Units(100)

\* C2: calculate_match raises only when the resume record or the JD record is
\* absent (None); for present records it returns a MatchResult whatever
\* sub-fields are missing, null or wrongly typed
C2_RaisesOnlyWhenAbsent ==
    (call.fn = "calculate_match" /\ ret = Raised /\ IsNone(call.custom_weights))
        => (IsNone(call.resume_data) \/ IsNone(call.jd_data))

\* C5: a criterion with no requirement is passed with the full section score for
\* every candidate: minExperienceYears = 0 gives met and 35, a requiredEducation
\* text of level 0 gives met and 25, an empty requiredSkills list gives met, 40
\* and 100 percent
C5_NoRequirementAutoPass ==
    (call.fn = "calculate_match" /\ Returned) =>
        /\ Get(call.jd_data, K_minExperienceYears, PyNone) = PyInt(0)
              => /\ ret.criteriaAnalysis.experienceMatch.met
                 /\ ret.sectionScores.experienceMatch = 35
        /\ (/\ IsStr(Get(call.jd_data, K_requiredEducation, PyNone))
            /\ normalize_education(Get(call.jd_data, K_requiredEducation, PyNone)).level = 0)
              => /\ ret.criteriaAnalysis.educationMatch.met
                 /\ ret.sectionScores.educationMatch = 25
        /\ Get(call.jd_data, K_requiredSkills, PyNone) = PyList(<<>>)
              => /\ ret.criteriaAnalysis.skillsMatch.met
                 /\ ret.sectionScores.skillsMatch = 40
                 /\ ret.criteriaAnalysis.skillsMatch.percentage = 100

\* C8: when the resume and the JD carry the same domain value, a member of the
\* catalog or "Unknown", overallScore equals rawOverallScore, and full
\* sub-scores give an overallScore of 100
C8_SameDomainNoPenalty ==
    (/\ call.fn = "calculate_match"
     /\ Returned
     /\ HasKey(call.resume_data, K_domain)
     /\ HasKey(call.jd_data, K_domain)
     /\ call.resume_data.d[K_domain] = call.jd_data.d[K_domain]
     /\ call.resume_data.d[K_domain] \in CatalogDomains)
        => /\ ret.overallScore = ret.rawOverallScore
           /\ ret.sectionScores = [experienceMatch |-> 35, educationMatch |-> 25,
                                   skillsMatch |-> 40]
                 => ret.overallScore = Units(100)

\* the step function of the domain adjustment, in hundredths
C9_Factor(c) ==
    IF c >= 70 THEN 90 ELSE IF c >= 60 THEN 80 ELSE IF c >= 50 THEN 65
    ELSE IF c >= 35 THEN 45 ELSE 25

C10_InvalidWeightsUseDefaults ==
    (/\ call.fn = "calculate_match"
     /\ ret # NotCalled
     /\ PresentRecords
     /\ IsDict(call.custom_weights)
     /\ EffectiveWeights(call.custom_weights) # call.custom_weights)
        => /\ ret # Raised
           /\ ret = calculate_match(call.resume_data, call.jd_data, DefaultWeights)

-----------------------------------------------------------------------------
(* Properties of a session of calls *)

-----------------------------------------------------------------------------
(* Properties of check_experience_match *)

\* C4: for a fixed requiredYears and candidate values c1 <= c2, the score and
\* the percentage of c1 are at most those of c2
C4_ExperienceMonotone ==
    (/\ call.fn = "check_experience_match"
     /\ ret # NotCalled
     /\ prev.called
     /\ RequiredYears(prev.call) = RequiredYears(call)
     /\ CandidateYears(prev.call) <= CandidateYears(call))
        => /\ prev.ret.score <= ret.score
           /\ prev.ret.percentage <= ret.percentage

\* two candidates below the requirement, the second with more years and a
\* higher score
C4_Witness ==
    /\ call.fn = "check_experience_match"
    /\ ret # NotCalled
    /\ prev.called
    /\ CandidateYears(prev.call) < CandidateYears(call)
    /\ CandidateYears(call) < RequiredYears(call)
    /\ prev.ret.score < ret.score
    /\ prev.ret.percentage < ret.percentage

-----------------------------------------------------------------------------
(* The texts and records that the calls of json_parser.py are explored with *)

S_Dev == <<"D", "e", "v">>
S_Py == <<"P", "y">>
S_3 == <<"3">>
S_1_000 == <<"1", ",", "0", "0", "0">>
S_level == <<"l", "e", "v", "e", "l">>
S_Here == <<"H", "e", "r", "e">>

\* the way a payload is written: the quotes of its strings, the quotes of its
\* keys (none: bare identifiers), the word for null, a comma before the closing
\* bracket or not
Style(q, kq, null, trailing) == [q |-> q, kq |-> kq, null |-> null, trailing |-> trailing]
JsonStyle == Style("dq", "dq", W_null, FALSE)
PythonStyle == Style("sq", "sq", W_None, TRUE)
LooseStyle == Style("dq", "word", W_null, TRUE)
Styles == {JsonStyle, PythonStyle, LooseStyle}

RECURSIVE Joined(_)
Joined(parts) ==
    IF parts = <<>> THEN <<>>
    ELSE IF Len(parts) = 1 THEN Head(parts)
    ELSE Head(parts) \o <<Comma>> \o Joined(Tail(parts))

Closed(open, parts, close, st) ==
    <<open>> \o Joined(parts)
             \o (IF st.trailing /\ parts # <<>> THEN <<Comma>> ELSE <<>>) \o <<close>>

\* the tokens of a value written in a style
RECURSIVE Written(_, _)
WrittenField(k, v, st) == <<Tok(st.kq, k), Colon>> \o Written(v, st)
Written(v, st) ==
    CASE IsNone(v) -> <<Word(st.null)>>
      [] IsInt(v) -> <<Num(IntToStr(v.n))>>
      [] IsStr(v) -> <<Tok(st.q, v.s)>>
      [] IsFloat(v) -> <<Word(IF v.x = S_inf THEN W_Infinity ELSE W_NaN)>>
      [] IsList(v) -> Closed(LBracket, [i \in DOMAIN v.items |-> Written(v.items[i], st)],
                             RBracket, st)
      [] v.t = "fields" -> Closed(LBrace, [i \in DOMAIN v.fields |->
                                              WrittenField(v.fields[i][1], v.fields[i][2], st)],
                                  RBrace, st)

\* an object with its fields in the order of the text
Fields(fs) == [t |-> "fields", fields |-> fs]

\* a payload alone, inside a markdown fence, after a sentence
Wraps == {"plain", "fenced", "prose"}
Framed(toks, wrap) ==
    CASE wrap = "plain" -> toks
      [] wrap = "fenced" -> <<FenceJson>> \o toks \o <<Fence>>
      [] wrap = "prose" -> <<Word(S_Here), Colon>> \o toks

TextYears == {PyInt(3), PyStr(S_3), PyStr(S_abc), PyStr(S_inf), PyFloat(S_inf), PyFloat(S_nan), PyNone}
TextSkills ==
    {PyList(<<>>),
     PyList(<<PyStr(S_Py), PyStr(<<>>)>>),
     PyList(<<Fields(<<<<K_name, PyStr(S_Py)>>>>), Fields(<<<<K_name, PyStr(<<>>)>>>>)>>),
     PyList(<<Fields(<<<<S_level, PyInt(1)>>>>), PyInt(5), PyNone>>),
     PyStr(S_Py),
     PyNone}
TextRequiredSkills ==
    {PyList(<<>>), PyList(<<PyStr(S_Py), PyInt(5), PyStr(<<>>), PyNone>>), PyStr(S_Py), PyNone}

ResumePayload(years, skills) ==
    Fields(<<<<K_role, PyStr(S_Dev)>>, <<K_totalYearsExperience, years>>,
             <<K_skills, skills>>, <<K_education, PyList(<<>>)>>>>)
PartialResumePayload(years, skills) ==
    Fields(<<<<K_totalYearsExperience, years>>, <<K_skills, skills>>>>)
JDPayload(years, skills) ==
    Fields(<<<<K_jobTitle, PyStr(S_Dev)>>, <<K_requiredSkills, skills>>,
             <<K_minExperienceYears, years>>>>)

Payloads ==
    {ResumePayload(y, s) : y \in TextYears, s \in TextSkills}
        \cup {PartialResumePayload(y, s) : y \in {PyInt(3), PyNone}, s \in TextSkills}
        \cup {JDPayload(y, s) : y \in TextYears, s \in TextRequiredSkills}

PayloadTexts == {Framed(Written(p, st), w) : p \in Payloads, st \in Styles, w \in Wraps}

\* every text of at most MaxTokens tokens over an alphabet of tokens
Alphabet ==
    {LBrace, RBrace, LBracket, RBracket, Comma, Colon, DQ(K_role), Num(<<"1">>), Word(W_None),
     Fence}
ShortTexts == SeqsUpTo(Alphabet, MaxTokens)

\* texts whose payload is no object, or cannot be hashed, or is more than one
\* value
OddTexts ==
    {<<LBrace, LBracket, RBracket, RBrace>>,
     <<LBrace, LBrace, RBrace, RBrace>>,
     <<LBrace, DQ(K_role), Comma, DQ(K_skills), RBrace>>,
     <<LBrace, DQ(K_role), Colon, Num(<<"1">>), RBrace, Comma,
       LBrace, DQ(K_skills), Colon, Num(<<"2">>), RBrace>>,
     <<LBrace, DQ(K_role), Colon, Num(<<"1">>), RBrace,
       LBrace, DQ(K_skills), Colon, Num(<<"2">>), RBrace>>,
     <<LBrace, LBracket, Num(<<"1">>), RBracket, Colon, Num(<<"2">>), Comma,
       DQ(K_role), Colon, Word(W_null), RBrace>>,
     <<LBrace, LBracket, Num(<<"1">>), RBracket, Colon, Word(W_null), RBrace>>,
     <<LBrace, DQ(K_role), Colon, DQ(S_Dev), DQ(S_Py), RBrace>>,
     <<LBrace, Num(<<"1">>), Colon, Num(<<"2">>), RBrace>>,
     <<LBrace, Word(K_role), Colon, Word(W_True), Comma, Word(W_None), Colon,
       SQ(W_None), RBrace>>,
     <<LBrace, DQ(K_skills), Colon, LBrace, Num(<<"1">>), RBrace, RBrace>>}

\* payloads that lack required fields and hold null for fields that are not
\* required, one of them a field of the default structure
NullFieldTexts ==
    {<<LBrace, DQ(K_skills), Colon, LBracket, RBracket, Comma, DQ(K_summary), Colon,
       Word(W_null), Comma, DQ(S_level), Colon, Word(W_null), RBrace>>,
     <<LBrace, DQ(K_jobTitle), Colon, DQ(S_Dev), Comma, DQ(K_responsibilities), Colon,
       Word(W_null), Comma, DQ(S_level), Colon, Num(<<"1">>), RBrace>>}

ResponseTexts ==
    {PyNone} \cup {PyText(toks) : toks \in PayloadTexts \cup ShortTexts \cup OddTexts
                                            \cup NullFieldTexts}

DocTypes == {S_Resume, S_Job_Description}

ParseCall(response_text, doc_type) ==
    [fn |-> "parse_with_validation", response_text |-> response_text, doc_type |-> doc_type]

ValidateCall(data, doc_type) ==
    [fn |-> "validate_data_types", data |-> data, doc_type |-> doc_type]

\* parsed records handed to validate_data_types
ParsedSkillEntries ==
    {PyStr(S_Py), PyStr(<<>>), Skill(S_Py), Skill(<<>>), PyDict(K_name :> PyNone),
     PyDict(S_level :> PyInt(1)), PyInt(5), PyNone}
ParsedSkills ==
    {PyList(q) : q \in SeqsUpTo(ParsedSkillEntries, MaxSkills)} \cup {PyStr(S_Py), PyNone, Absent}
ParsedYears == {PyInt(3), PyInt(-1), PyStr(S_1_000), PyStr(S_inf), PyNone, Absent}
ParsedRequiredSkills ==
    {PyList(q) : q \in SeqsUpTo({PyStr(S_Py), PyStr(<<>>), PyInt(5), PyNone}, MaxSkills)}
        \cup {PyStr(S_Py), Absent}

ParsedResume(years, skills) ==
    Record((K_role :> PyStr(S_Dev)) @@ (K_totalYearsExperience :> years)
           @@ (K_skills :> skills) @@ (K_education :> PyStr(S_abc)))
ParsedJD(years, skills) ==
    Record((K_jobTitle :> PyStr(S_Dev)) @@ (K_minExperienceYears :> years)
           @@ (K_requiredSkills :> skills))

IsParserCall(c) ==
    \/ \E text \in ResponseTexts, doc_type \in DocTypes : c = ParseCall(text, doc_type)
    \/ \E y \in ParsedYears, s \in ParsedSkills : c = ValidateCall(ParsedResume(y, s), S_Resume)
    \/ \E y \in ParsedYears, s \in ParsedRequiredSkills :
          c = ValidateCall(ParsedJD(y, s), S_Job_Description)

-----------------------------------------------------------------------------
(* The calls of json_parser.py as a state machine *)

InitParse ==
    /\ IsParserCall(call)
    /\ ret = NotCalled
    /\ after = NotCalled
    /\ prev = NoPrev

\* one call of parse_with_validation runs to its return or its raise; the text
\* it is given is a string, which no call can change
ParseWithValidation ==
    /\ call.fn = "parse_with_validation"
    /\ ret = NotCalled
    /\ ret' = parse_with_validation(call.response_text, call.doc_type)
    /\ UNCHANGED <<call, after, prev>>

\* one call of validate_data_types: it writes into the dict it is given and
\* returns that dict
ValidateDataTypes ==
    /\ call.fn = "validate_data_types"
    /\ ret = NotCalled
    /\ ret' = validate_data_types(call.data, call.doc_type)
    /\ after' = validate_data_types(call.data, call.doc_type)
    /\ UNCHANGED <<call, prev>>

NextParse == ParseWithValidation \/ ValidateDataTypes

SpecParse == InitParse /\ [][NextParse]_vars

-----------------------------------------------------------------------------
(* Properties of json_parser.py *)

ParseReturned == call.fn = "parse_with_validation" /\ ret # NotCalled
ValidateReturned == call.fn = "validate_data_types" /\ ret # NotCalled

\* a record of the doc type: a dict with the required fields of the type
IsRecordOf(v, doc_type) == IsDict(v) /\ RequiredFields(doc_type) \subseteq DOMAIN v.d

\* C6: for every raw text (None, empty, without braces, with a payload that
\* cannot be repaired, with a payload that is read as a value that is no
\* object) parse_with_validation does not raise and returns a record of the
\* requested doc type
C6_ParseWithValidationTotal ==
    ParseReturned => (ret # Raised /\ IsRecordOf(ret, call.doc_type))

\* an entry of skills that is an object with a non-empty name
IsNamedSkill(skill) == IsDict(skill) /\ HasKey(skill, K_name) /\ Truthy(skill.d[K_name])

\* the names that the entries of a parsed skills list are to give: the name of
\* an object with a non-empty name, a non-empty bare string itself, and nothing
\* for any other entry
ExpectedName(skill) ==
    IF IsDict(skill) THEN (IF IsNamedSkill(skill) THEN <<skill.d[K_name]>> ELSE <<>>)
    ELSE IF IsStr(skill) /\ skill.s # <<>> THEN <<skill>>
    ELSE <<>>

RECURSIVE ExpectedNames(_, _)
ExpectedNames(skills, i) ==
    IF i > Len(skills) THEN <<>> ELSE ExpectedName(skills[i]) \o ExpectedNames(skills, i + 1)

NamesOf(skills) == [i \in DOMAIN skills |-> skills[i].d[K_name]]

\* C7: after the validation of a Resume every entry of skills is an object with
\* a non-empty name; entries without a name or with an empty name, empty bare
\* strings and entries that are neither strings nor objects are dropped, and a
\* non-empty bare string s becomes an entry with the name s
C7_ValidatedSkillsHaveNames ==
    /\ (ParseReturned /\ call.doc_type = S_Resume /\ ret # Raised /\ HasKey(ret, K_skills))
          => /\ IsList(ret.d[K_skills])
             /\ \A i \in DOMAIN ret.d[K_skills].items : IsNamedSkill(ret.d[K_skills].items[i])
    /\ (ValidateReturned /\ call.doc_type = S_Resume /\ HasKey(ret, K_skills))
          => /\ IsList(ret.d[K_skills])
             /\ \A i \in DOMAIN ret.d[K_skills].items : IsNamedSkill(ret.d[K_skills].items[i])
             /\ IsList(call.data.d[K_skills])
                   => NamesOf(ret.d[K_skills].items)
                          = ExpectedNames(call.data.d[K_skills].items, 1)

-----------------------------------------------------------------------------
(* get_assessment called for one score after another, and calculate_match
   calling it for its overallScore *)

\* the score that raw_overall_score is clamped to
MaxScore == 100

\* whole scores and the values just below them, in units of 1 / ScoreUnit
AssessmentScores == {k * ScoreUnit - d : k \in 0..MaxScore, d \in {0, 1}}

AssessmentCall(score) == [fn |-> "get_assessment", score |-> score]

InitAssessment ==
    /\ \/ \E s \in AssessmentScores : call = AssessmentCall(s)
       \/ IsSessionCall(call)
    /\ ret = NotCalled
    /\ after = NotCalled
    /\ prev = NoPrev

GetAssessment ==
    /\ call.fn = "get_assessment"
    /\ ret = NotCalled
    /\ ret' = [assessment |-> get_assessment(call.score)]
    /\ UNCHANGED <<call, after, prev>>

\* another score is assessed
NextScore ==
    /\ call.fn = "get_assessment"
    /\ ret # NotCalled
    /\ \E s \in AssessmentScores : call' = AssessmentCall(s)
    /\ ret' = NotCalled
    /\ prev' = Remembered(call, ret)
    /\ UNCHANGED after

NextAssessment == GetAssessment \/ NextScore \/ CalculateMatch

SpecAssessment == InitAssessment /\ [][NextAssessment]_vars

-----------------------------------------------------------------------------
(* Properties of get_assessment *)

\* the tiers with the scores they cover, from lo up to but not including hi
Tiers ==
    {[name |-> "Excellent Match", rank |-> 4, lo |-> 90, hi |-> MaxScore + 1],
     [name |-> "Great Match", rank |-> 3, lo |-> 75, hi |-> 90],
     [name |-> "Good Match", rank |-> 2, lo |-> 60, hi |-> 75],
     [name |-> "Moderate Match", rank |-> 1, lo |-> 40, hi |-> 60],
     [name |-> "Poor Match", rank |-> 0, lo |-> 0, hi |-> 40]}

TiersOf(score) == {t \in Tiers : Units(t.lo) <= score /\ score < Units(t.hi)}
TierNamed(name) == CHOOSE t \in Tiers : t.name = name
IsOverallScore(score) == 0 <= score /\ score <= Units(MaxScore)

\* C11: the assessment is the tier of the score by fixed boundaries (>= 90
\* Excellent, >= 75 Great, >= 60 Good, >= 40 Moderate, below 40 Poor); every
\* score from 0 to 100 has exactly one tier, a higher score never has a lower
\* tier, and calculate_match reports the tier of its overallScore
C11_AssessmentTiers ==
    /\ (call.fn = "get_assessment" /\ ret # NotCalled /\ IsOverallScore(call.score))
          => /\ Cardinality(TiersOf(call.score)) = 1
             /\ \A t \in TiersOf(call.score) : ret.assessment = t.name
             /\ (/\ prev.called
                 /\ IsOverallScore(prev.call.score)
                 /\ prev.call.score <= call.score)
                   => TierNamed(prev.ret.assessment).rank <= TierNamed(ret.assessment).rank
    /\ (call.fn = "calculate_match" /\ Returned)
          => /\ Cardinality(TiersOf(ret.overallScore)) = 1
             /\ \A t \in TiersOf(ret.overallScore) : ret.assessment = t.name

\* a score exactly on a boundary is assessed after the score just below it and
\* gets the higher tier
C11_Witness ==
    /\ call.fn = "get_assessment"
    /\ ret # NotCalled
    /\ ret.assessment = "Great Match"
    /\ call.score = Units(75)
    /\ prev.called
    /\ prev.call.score = Units(75) - 1
    /\ prev.ret.assessment = "Good Match"

-----------------------------------------------------------------------------
(* Properties of the gaps of calculate_match *)

Occurrences(xs, x) == Cardinality({i \in DOMAIN xs : xs[i] = x})
OneIf(b) == IF b THEN 1 ELSE 0

\* C12: gaps holds one entry for the domain when compatibility < 60, one for
\* each of experience, education and skills whose met is false, and nothing
\* else; it is empty exactly when compatibility >= 60 and all three are met
C12_GapsOnePerFailure ==
    (call.fn = "calculate_match" /\ Returned) =>
        /\ Occurrences(ret.gaps, "Domain Shift")
              = OneIf(ret.criteriaAnalysis.domainMatch.compatibility < 60)
        /\ Occurrences(ret.gaps, "Experience")
              = OneIf(~ret.criteriaAnalysis.experienceMatch.met)
        /\ Occurrences(ret.gaps, "Education")
              = OneIf(~ret.criteriaAnalysis.educationMatch.met)
        /\ Occurrences(ret.gaps, "Skills") = OneIf(~ret.criteriaAnalysis.skillsMatch.met)
        /\ \A i \in DOMAIN ret.gaps :
              ret.gaps[i] \in {"Domain Shift", "Experience", "Education", "Skills"}
        /\ (ret.gaps = <<>>) <=> /\ ret.criteriaAnalysis.domainMatch.compatibility >= 60
                                 /\ ret.criteriaAnalysis.experienceMatch.met
                                 /\ ret.criteriaAnalysis.educationMatch.met
                                 /\ ret.criteriaAnalysis.skillsMatch.met

\* a result in which the domain and all three criteria fail
C12_Witness ==
    /\ call.fn = "calculate_match"
    /\ Returned
    /\ ret.criteriaAnalysis.domainMatch.compatibility < 60
    /\ ~ret.criteriaAnalysis.experienceMatch.met
    /\ ~ret.criteriaAnalysis.educationMatch.met
    /\ ~ret.criteriaAnalysis.skillsMatch.met
    /\ Len(ret.gaps) = 4

-----------------------------------------------------------------------------
(* Matching.py: the batch pipeline. The text of a file and the response of the
   model to its prompt are inputs of the handler *)

\* extract_structured_data(text, doc_type), response_text being what call_llama
\* returns for the prompt: None, or the response text
DataOrNone(data) == IF data = Raised THEN Raised ELSE IF Truthy(data) THEN data ELSE PyNone
extract_structured_data(response_text, doc_type) ==
    IF IsNone(response_text) THEN PyNone
    ELSE DataOrNone(parse_with_validation(response_text, doc_type))

\* an uploaded file: the name, whether process_file gets a text out of it, and
\* the response of the model to the prompt made of that text
UploadedFile(name, readable, response) ==
    [name |-> name, readable |-> readable, response |-> response]

ResultEntry(resume_file, resume_data, matching_result) ==
    [filename |-> resume_file.name, resume_data |-> resume_data,
     matching_result |-> matching_result]

\* the loop over resume_files from index idx on; the results list at its end, or
\* Raised
RECURSIVE ProcessResumes(_, _, _, _)
Matched(resume_files, idx, jd_data, results, resume_data, matching_result) ==
    IF matching_result = Raised THEN Raised
    ELSE ProcessResumes(resume_files, idx + 1, jd_data,
                        Append(results, ResultEntry(resume_files[idx], resume_data,
                                                    matching_result)))
Extracted(resume_files, idx, jd_data, results, resume_data) ==
    IF resume_data = Raised THEN Raised
    ELSE IF ~Truthy(resume_data) THEN ProcessResumes(resume_files, idx + 1, jd_data, results)
    ELSE Matched(resume_files, idx, jd_data, results, resume_data,
                 calculate_match(resume_data, jd_data, PyNone))
ProcessResumes(resume_files, idx, jd_data, results) ==
    IF idx > Len(resume_files) THEN [raised |-> FALSE, results |-> results]
    ELSE IF ~resume_files[idx].readable
    THEN ProcessResumes(resume_files, idx + 1, jd_data, results)
    ELSE Extracted(resume_files, idx, jd_data, results,
                   extract_structured_data(resume_files[idx].response, S_Resume))

\* results.sort(key = overallScore, reverse = True): a stable sort, entries of
\* equal score keep their order
InsertByScore(sorted, e) ==
    LET n == Cardinality({i \in DOMAIN sorted : sorted[i].matching_result.overallScore
                                                   >= e.matching_result.overallScore})
    IN SubSeq(sorted, 1, n) \o <<e>> \o SubSeq(sorted, n + 1, Len(sorted))
\* a variant of SortByScore that leaves the results in the order of the upload
SortByScore_UploadOrder(results, i, sorted) == results
RECURSIVE SortByScore(_, _, _)
SortByScore(results, i, sorted) ==
    IF i > Len(results) THEN sorted
    ELSE SortByScore(results, i + 1, InsertByScore(sorted, results[i]))

\* st.session_state: no batch stored, or the batch_data of a batch
NoBatch == [mode |-> "none"]
BatchData(results, jd_data, resume_files) ==
    [mode |-> "batch", results |-> results, jd_data |-> jd_data,
     total_processed |-> Len(resume_files), total_valid |-> Len(results)]

Shown(message) == [raised |-> FALSE, message |-> message]
Outcome(shown, session) == [shown |-> shown, session |-> session]

\* process_batch_mode once the button is pressed: what it shows or raises, and
\* the session state it leaves (saving to the database is inside a try block
\* and changes neither)
Stored(processed, jd_data, resume_files, session) ==
    IF processed = Raised THEN Outcome(Raised, session)
    ELSE IF processed.results = <<>>
    THEN Outcome(Shown("No valid resumes to process"), session)
    ELSE Outcome(Shown("Batch Processing Complete!"),
                 BatchData(SortByScore(processed.results, 1, <<>>), jd_data, resume_files))
WithJD(jd_data, resume_files, session) ==
    IF jd_data = Raised THEN Outcome(Raised, session)
    ELSE IF ~Truthy(jd_data) THEN Outcome(Shown("Failed to extract JD"), session)
    ELSE Stored(ProcessResumes(resume_files, 1, jd_data, <<>>), jd_data, resume_files, session)
process_batch_mode(resume_files, jd, connected, session) ==
    IF resume_files = <<>> THEN Outcome(Shown("Please upload at least one resume"), session)
    ELSE IF ~jd.given THEN Outcome(Shown("Please provide job description"), session)
    ELSE IF ~connected THEN Outcome(Shown("Cannot reach Ollama"), session)
    ELSE WithJD(extract_structured_data(jd.response, S_Job_Description), resume_files, session)

\* the batches the model explores: at most MaxResumes files, each unreadable or
\* answered by the model with nothing, with prose, with a set literal, or with
\* one of three resumes of different worth
MaxResumes == 3
BatchResume(years, skills) ==
    Fields(<<<<K_role, PyStr(S_Dev)>>, <<K_totalYearsExperience, PyInt(years)>>,
             <<K_skills, PyList(skills)>>, <<K_education, PyList(<<>>)>>,
             <<K_domain, PyStr(S_IT_Software)>>>>)
BatchJD ==
    Fields(<<<<K_jobTitle, PyStr(S_Dev)>>, <<K_requiredSkills, PyList(<<PyStr(S_Py)>>)>>,
             <<K_minExperienceYears, PyInt(2)>>, <<K_domain, PyStr(S_IT_Software)>>>>)
ProseText == PyText(<<Word(S_Here)>>)
SetText == PyText(<<LBrace, Num(<<"1">>), RBrace>>)
ResumeResponses ==
    {PyNone, PyText(<<>>), ProseText, SetText,
     PyText(Written(BatchResume(2, <<PyStr(S_Py)>>), JsonStyle)),
     PyText(Framed(Written(BatchResume(1, <<PyStr(S_Py)>>), JsonStyle), "fenced")),
     PyText(Written(BatchResume(2, <<>>), LooseStyle))}
JDResponses == {PyNone, ProseText, SetText, PyText(Written(BatchJD, JsonStyle))}
Uploads ==
    {[readable |-> FALSE, response |-> PyNone]}
        \cup {[readable |-> TRUE, response |-> r] : r \in ResumeResponses}
ResumeFiles ==
    {[i \in DOMAIN us |-> UploadedFile(i, us[i].readable, us[i].response)] :
        us \in SeqsUpTo(Uploads, MaxResumes)}
JDInputs ==
    {[given |-> FALSE, response |-> PyNone]}
        \cup {[given |-> TRUE, response |-> r] : r \in JDResponses}
BatchCall(resume_files, jd, connected) ==
    [fn |-> "process_batch_mode", resume_files |-> resume_files, jd |-> jd,
     connected |-> connected]

InitBatch ==
    /\ \E fs \in ResumeFiles, jd \in JDInputs, c \in BOOLEAN : call = BatchCall(fs, jd, c)
    /\ ret = NotCalled
    /\ after = NoBatch
    /\ prev = NoPrev

\* the button is pressed: ret is what the handler shows or raises, after the
\* session state it leaves
ProcessBatchMode ==
    /\ call.fn = "process_batch_mode"
    /\ ret = NotCalled
    /\ \E out \in {process_batch_mode(call.resume_files, call.jd, call.connected, after)} :
            /\ ret' = out.shown
            /\ after' = out.session
    /\ UNCHANGED <<call, prev>>

NextBatch == ProcessBatchMode
SpecBatch == InitBatch /\ [][NextBatch]_vars

-----------------------------------------------------------------------------
(* Properties of the batch pipeline *)

BatchRan == call.fn = "process_batch_mode" /\ ret # NotCalled
BatchStored == BatchRan /\ ret = Shown("Batch Processing Complete!")
\* the response is null, or holds no JSON object
FailsExtraction(response) == IsNone(response) \/ ~IsDict(clean_json_response(response))
EntriesOf(results, name) == {j \in DOMAIN results : results[j].filename = name}

\* C13: a document whose generation returns null, like one whose response is
\* malformed, still gets the default record and a MatchResult with an
\* overallScore in [0,100]; it is not dropped and does not stop the others
C13_FailedExtractionStillMatched ==
    (BatchRan /\ call.connected /\ call.jd.given) =>
        \A i \in DOMAIN call.resume_files :
            (call.resume_files[i].readable /\ FailsExtraction(call.resume_files[i].response))
                => /\ after.mode = "batch"
                   /\ \E j \in EntriesOf(after.results, i) :
                        /\ after.results[j].resume_data = get_default_structure(S_Resume)
                        /\ 0 <= after.results[j].matching_result.overallScore
                        /\ after.results[j].matching_result.overallScore <= Units(MaxScore)

\* a resume succeeds when its file is read, its data extracted and the match
\* computed
Succeeds(resume_file, jd_data) ==
    /\ resume_file.readable
    /\ extract_structured_data(resume_file.response, S_Resume) \notin {Raised, PyNone}
    /\ calculate_match(extract_structured_data(resume_file.response, S_Resume), jd_data,
                       PyNone) # Raised

\* C14: the stored results are in non-increasing order of overallScore, and hold
\* exactly one entry for each resume that was extracted and matched
C14_StoredResultsSorted ==
    BatchStored =>
        /\ \A i, j \in DOMAIN after.results :
              i < j => after.results[i].matching_result.overallScore
                          >= after.results[j].matching_result.overallScore
        /\ \A i \in DOMAIN call.resume_files :
              Cardinality(EntriesOf(after.results, i))
                 = OneIf(Succeeds(call.resume_files[i], after.jd_data))
        /\ \A j \in DOMAIN after.results :
              /\ after.results[j].filename \in DOMAIN call.resume_files
              /\ after.results[j].resume_data
                    = extract_structured_data(
                          call.resume_files[after.results[j].filename].response, S_Resume)
              /\ after.results[j].matching_result
                    = calculate_match(after.results[j].resume_data, after.jd_data, PyNone)

\* three resumes uploaded in increasing order of score are stored in decreasing
\* order
C14_Witness ==
    /\ BatchStored
    /\ Len(after.results) = 3
    /\ after.results[1].filename = 3
    /\ after.results[2].filename = 2
    /\ after.results[3].filename = 1
    /\ after.results[1].matching_result.overallScore
          > after.results[2].matching_result.overallScore
    /\ after.results[2].matching_result.overallScore
          > after.results[3].matching_result.overallScore

-----------------------------------------------------------------------------
(* Properties of the validation of json_parser.py *)

\* C15: validate_data_types leaves the dict it is given as it was: after the
\* call the argument has the keys and values it had before
C15_ValidationLeavesInput == ValidateReturned => after = call.data

\* the parsed record of a call of parse_with_validation
ParsedRecord == clean_json_response(call.response_text)
\* the call parsed a record that lacks required fields, and returned
OverlaidDefaults ==
    /\ ParseReturned
    /\ ret # Raised
    /\ ParsedRecord # Raised
    /\ IsDict(ParsedRecord)
    /\ Truthy(ParsedRecord)
    /\ MissingFields(ParsedRecord, RequiredFields(call.doc_type)) # {}

\* C16: when the parsed record lacks required fields the output holds the
\* default of each missing required field and, for every other field of the
\* parsed record, null ones included, the parsed value as validation alone
\* leaves it; no field is lost and no other field is added
C16_OverlayMissingOnly ==
    OverlaidDefaults =>
        /\ DOMAIN ret.d = DOMAIN ParsedRecord.d
                             \cup MissingFields(ParsedRecord, RequiredFields(call.doc_type))
        /\ \A k \in MissingFields(ParsedRecord, RequiredFields(call.doc_type)) :
              k \in DOMAIN ret.d /\ ret.d[k] = get_default_structure(call.doc_type).d[k]
        /\ \A k \in DOMAIN ParsedRecord.d
                       \ MissingFields(ParsedRecord, RequiredFields(call.doc_type)) :
              /\ k \in DOMAIN ret.d
              /\ ret.d[k] = validate_data_types(ParsedRecord, call.doc_type).d[k]

NumericField(doc_type) ==
    IF doc_type = S_Resume THEN K_totalYearsExperience ELSE K_minExperienceYears
IsNonNegativeInt(v) == IsInt(v) /\ v.n >= 0

\* C17: after validation the numeric field of the record is an integer >= 0;
\* a string of digits and commas becomes its value and a value that is no
\* number becomes 0
C17_NumericFieldsNonNegative ==
    /\ (ParseReturned /\ ret # Raised) =>
          IsNonNegativeInt(ret.d[NumericField(call.doc_type)])
    /\ (ValidateReturned /\ HasKey(call.data, NumericField(call.doc_type))) =>
          /\ IsNonNegativeInt(ret.d[NumericField(call.doc_type)])
          /\ call.data.d[NumericField(call.doc_type)] = PyStr(S_1_000)
                => ret.d[NumericField(call.doc_type)] = PyInt(1000)
          /\ call.data.d[NumericField(call.doc_type)] \in {PyNone, PyStr(S_inf)}
                => ret.d[NumericField(call.doc_type)] = PyInt(0)

-----------------------------------------------------------------------------
(* The calls of get_domain_compatibility as a state machine *)

S_Robotics == <<"R", "o", "b", "o", "t", "i", "c", "s">>
\* the domains of a call: the catalog, "Unknown", a domain the catalog does not
\* have, and the absent ones: None and the empty string
DomainArgs == CatalogDomains \cup {PyStr(S_Robotics), PyNone, PyStr(<<>>)}
DomainCall(resume_domain, jd_domain) ==
    [fn |-> "get_domain_compatibility", resume_domain |-> resume_domain,
     jd_domain |-> jd_domain]

InitDomain ==
    /\ \E r \in DomainArgs, j \in DomainArgs : call = DomainCall(r, j)
    /\ ret = NotCalled
    /\ after = NotCalled
    /\ prev = NoPrev

GetDomainCompatibility ==
    /\ call.fn = "get_domain_compatibility"
    /\ ret = NotCalled
    /\ ret' = get_domain_compatibility(call.resume_domain, call.jd_domain)
    /\ UNCHANGED <<call, after, prev>>

NextDomain == GetDomainCompatibility
SpecDomain == InitDomain /\ [][NextDomain]_vars

IsAbsentOrUnknown(domain) == IsNone(domain) \/ domain = PyStr(<<>>) \/ domain = PyStr(S_Unknown)

\* C18: get_domain_compatibility gives level "Unknown" and score 0 when a
\* domain is absent or "Unknown"; otherwise the score of the matrix for the
\* pair (0 for a pair it does not hold) and the level Perfect from 85, Good from
\* 60, Acceptable from 35, Poor below
C18_DomainCompatibilityLevels ==
    (call.fn = "get_domain_compatibility" /\ ret # NotCalled) =>
        IF IsAbsentOrUnknown(call.resume_domain) \/ IsAbsentOrUnknown(call.jd_domain)
        THEN ret.level = "Unknown" /\ ret.score = 0
        ELSE /\ ret.score = MatrixScore(call.resume_domain, call.jd_domain)
             /\ ret.score >= 85 => ret.level = "Perfect"
             /\ (60 <= ret.score /\ ret.score < 85) => ret.level = "Good"
             /\ (35 <= ret.score /\ ret.score < 60) => ret.level = "Acceptable"
             /\ ret.score < 35 => ret.level = "Poor"

-----------------------------------------------------------------------------
(* domain_classification.py: classification of a text *)

\* DOMAIN_CATEGORIES[domain]["keywords"], the domains in the order of DOMAIN_NAMES
DOMAIN_KEYWORDS == <<
    <<<<"s", "o", "f", "t", "w", "a", "r", "e">>, <<"d", "e", "v", "e", "l", "o", "p", "e", "r">>, <<"e", "n", "g", "i", "n", "e", "e", "r">>, <<"p", "r", "o", "g", "r", "a", "m", "m", "i", "n", "g">>, <<"c", "o", "d", "e">>, <<"i", "t">>, <<"t", "e", "c", "h", "n", "o", "l", "o", "g", "y">>, <<"w", "e", "b">>, <<"a", "p", "p">>, <<"m", "o", "b", "i", "l", "e">>>>,
    <<<<"b", "a", "c", "k", "e", "n", "d">>, <<"s", "e", "r", "v", "e", "r">>, <<"a", "p", "i">>, <<"d", "j", "a", "n", "g", "o">>, <<"f", "a", "s", "t", "a", "p", "i">>, <<"n", "o", "d", "e", "j", "s">>, <<"e", "x", "p", "r", "e", "s", "s">>, <<"s", "p", "r", "i", "n", "g">>, <<"m", "i", "c", "r", "o", "s", "e", "r", "v", "i", "c", "e", "s">>>>,
    <<<<"f", "r", "o", "n", "t", "e", "n", "d">>, <<"u", "i">>, <<"u", "x">>, <<"r", "e", "a", "c", "t">>, <<"a", "n", "g", "u", "l", "a", "r">>, <<"v", "u", "e">>, <<"h", "t", "m", "l">>, <<"c", "s", "s">>, <<"j", "a", "v", "a", "s", "c", "r", "i", "p", "t">>, <<"w", "e", "b", " ", "d", "e", "v", "e", "l", "o", "p", "m", "e", "n", "t">>>>,
    <<<<"a", "i">>, <<"m", "l">>, <<"m", "a", "c", "h", "i", "n", "e", " ", "l", "e", "a", "r", "n", "i", "n", "g">>, <<"d", "e", "e", "p", " ", "l", "e", "a", "r", "n", "i", "n", "g">>, <<"n", "e", "u", "r", "a", "l">>, <<"t", "e", "n", "s", "o", "r", "f", "l", "o", "w">>, <<"p", "y", "t", "o", "r", "c", "h">>, <<"d", "a", "t", "a", " ", "s", "c", "i", "e", "n", "c", "e">>, <<"n", "l", "p">>, <<"c", "o", "m", "p", "u", "t", "e", "r", " ", "v", "i", "s", "i", "o", "n">>, <<"a", "l", "g", "o", "r", "i", "t", "h", "m">>>>,
    <<<<"d", "e", "v", "o", "p", "s">>, <<"c", "l", "o", "u", "d">>, <<"a", "w", "s">>, <<"a", "z", "u", "r", "e">>, <<"g", "c", "p">>, <<"k", "u", "b", "e", "r", "n", "e", "t", "e", "s">>, <<"d", "o", "c", "k", "e", "r">>, <<"c", "i", "/", "c", "d">>, <<"j", "e", "n", "k", "i", "n", "s">>, <<"t", "e", "r", "r", "a", "f", "o", "r", "m">>, <<"i", "n", "f", "r", "a", "s", "t", "r", "u", "c", "t", "u", "r", "e">>>>,
    <<<<"q", "a">>, <<"t", "e", "s", "t">>, <<"t", "e", "s", "t", "i", "n", "g">>, <<"a", "u", "t", "o", "m", "a", "t", "i", "o", "n">>, <<"s", "e", "l", "e", "n", "i", "u", "m">>, <<"p", "y", "t", "e", "s", "t">>, <<"m", "a", "n", "u", "a", "l", " ", "t", "e", "s", "t", "i", "n", "g">>, <<"q", "u", "a", "l", "i", "t", "y", " ", "a", "s", "s", "u", "r", "a", "n", "c", "e">>>>,
    <<<<"f", "i", "n", "a", "n", "c", "e">>, <<"a", "c", "c", "o", "u", "n", "t", "i", "n", "g">>, <<"g", "a", "a", "p">>, <<"l", "e", "d", "g", "e", "r">>, <<"a", "u", "d", "i", "t">>, <<"c", "p", "a">>, <<"f", "i", "n", "a", "n", "c", "i", "a", "l">>, <<"a", "c", "c", "o", "u", "n", "t", "a", "n", "t">>, <<"b", "o", "o", "k", "k", "e", "e", "p", "i", "n", "g">>, <<"t", "a", "x">>>>,
    <<<<"h", "e", "a", "l", "t", "h", "c", "a", "r", "e">>, <<"m", "e", "d", "i", "c", "a", "l">>, <<"n", "u", "r", "s", "e">>, <<"d", "o", "c", "t", "o", "r">>, <<"p", "h", "y", "s", "i", "c", "i", "a", "n">>, <<"h", "o", "s", "p", "i", "t", "a", "l">>, <<"c", "l", "i", "n", "i", "c", "a", "l">>, <<"p", "h", "a", "r", "m", "a", "c", "e", "u", "t", "i", "c", "a", "l">>, <<"h", "e", "a", "l", "t", "h">>>>,
    <<<<"s", "a", "l", "e", "s">>, <<"m", "a", "r", "k", "e", "t", "i", "n", "g">>, <<"m", "a", "r", "k", "e", "t", "i", "n", "g">>, <<"b", "u", "s", "i", "n", "e", "s", "s", " ", "d", "e", "v", "e", "l", "o", "p", "m", "e", "n", "t">>, <<"a", "c", "c", "o", "u", "n", "t", " ", "e", "x", "e", "c", "u", "t", "i", "v", "e">>, <<"c", "a", "m", "p", "a", "i", "g", "n">>, <<"s", "e", "o">>, <<"d", "i", "g", "i", "t", "a", "l", " ", "m", "a", "r", "k", "e", "t", "i", "n", "g">>>>,
    <<<<"h", "r">>, <<"h", "u", "m", "a", "n", " ", "r", "e", "s", "o", "u", "r", "c", "e", "s">>, <<"r", "e", "c", "r", "u", "i", "t", "m", "e", "n", "t">>, <<"h", "i", "r", "i", "n", "g">>, <<"t", "a", "l", "e", "n", "t">>, <<"e", "m", "p", "l", "o", "y", "e", "e">>, <<"p", "a", "y", "r", "o", "l", "l">>>>,
    <<<<"b", "a", "n", "k", "i", "n", "g">>, <<"b", "a", "n", "k">>, <<"l", "o", "a", "n">>, <<"c", "r", "e", "d", "i", "t">>, <<"m", "o", "r", "t", "g", "a", "g", "e">>, <<"t", "r", "a", "d", "i", "n", "g">>, <<"i", "n", "v", "e", "s", "t", "m", "e", "n", "t">>, <<"p", "o", "r", "t", "f", "o", "l", "i", "o">>>>
>>

\* s.count(sub): the occurrences of sub in s from position i on that do not
\* overlap
RECURSIVE CountFrom(_, _, _)
CountFrom(s, sub, i) ==
    IF i + Len(sub) - 1 > Len(s) THEN 0
    ELSE IF SubSeq(s, i, i + Len(sub) - 1) = sub THEN 1 + CountFrom(s, sub, i + Len(sub))
    ELSE CountFrom(s, sub, i + 1)

\* the count of a domain: the occurrences of each of its keywords, from keyword
\* k on
RECURSIVE KeywordCount(_, _, _)
KeywordCount(text_lower, keywords, k) ==
    IF k > Len(keywords) THEN 0
    ELSE CountFrom(text_lower, keywords[k], 1) + KeywordCount(text_lower, keywords, k + 1)

FoundKeyword(domain, count) == [domain |-> domain, keyword_count |-> count, score |-> count]

\* found_keywords.sort(key = score, reverse = True): a stable sort
InsertKeyword(sorted, e) ==
    LET n == Cardinality({i \in DOMAIN sorted : sorted[i].score >= e.score})
    IN SubSeq(sorted, 1, n) \o <<e>> \o SubSeq(sorted, n + 1, Len(sorted))

\* extract_keywords(text) for a text that is not empty, from domain i on
RECURSIVE FoundKeywords(_, _, _)
AddFound(text_lower, i, sorted, count) ==
    FoundKeywords(text_lower, i + 1,
                  IF count > 0 THEN InsertKeyword(sorted, FoundKeyword(DOMAIN_NAMES[i], count))
                  ELSE sorted)
FoundKeywords(text_lower, i, sorted) ==
    IF i > Len(DOMAIN_NAMES) THEN sorted
    ELSE AddFound(text_lower, i, sorted, KeywordCount(text_lower, DOMAIN_KEYWORDS[i], 1))

extract_keywords(text) ==
    IF ~Truthy(text) THEN <<>> ELSE FoundKeywords(Lower(text.s), 1, <<>>)

RECURSIVE SumScores(_, _)
SumScores(found, i) == IF i > Len(found) THEN 0 ELSE found[i].score + SumScores(found, i + 1)

DomainResult(primary_domain, confidence, detected_domains, keywords_found) ==
    [raised |-> FALSE, primary_domain |-> primary_domain, confidence |-> confidence,
     detected_domains |-> detected_domains, keywords_found |-> keywords_found]

\* int(min(100, primary / total * 100)): the float product is the exact quotient
\* rounded down for every total below 50
Confidence(primary_score, total_keywords) ==
    IF total_keywords > 0 THEN Min(100, TruncDiv(100 * primary_score, total_keywords)) ELSE 0

DetectedFrom(keywords_found) ==
    IF keywords_found = <<>> THEN DomainResult(S_Unknown, 0, <<>>, <<>>)
    ELSE DomainResult(keywords_found[1].domain,
                      Confidence(keywords_found[1].score, SumScores(keywords_found, 1)),
                      SubSeq(keywords_found, 1, Min(3, Len(keywords_found))), keywords_found)

\* detect_domain_from_text(text, doc_type)
detect_domain_from_text(text, doc_type) ==
    IF ~Truthy(text) THEN DomainResult(S_Unknown, 0, <<>>, <<>>)
    ELSE DetectedFrom(extract_keywords(text))

K_primary_domain == <<"p", "r", "i", "m", "a", "r", "y", "_", "d", "o", "m", "a", "i", "n">>
K_confidence == <<"c", "o", "n", "f", "i", "d", "e", "n", "c", "e">>

WithMethod(result, method) == [k \in DOMAIN result \cup {"method"} |-> IF k = "method" THEN method ELSE result[k]]

\* the functions that llm_extraction.py defines
LLM_EXTRACTION_NAMES == {"call_llama", "extract_structured_data_stable", "extract_text_from_docx", "extract_text_from_pdf", "extract_text_from_txt", "format_llama_prompt", "init_cache", "process_file", "repair_json_string", "try_parse_json", "validate_json_response"}

\* from module import names: the import raises when the module cannot be loaded
\* or does not define a name
ImportRaises(module_loads, module_names, names) == ~module_loads \/ ~(names \subseteq module_names)

\* response[start:end + 1] for the first { and the last }, both found
BraceSlice(toks) ==
    IF Positions(toks, LBrace) = {} \/ Positions(toks, RBrace) = {} THEN <<>>
    ELSE SubSeq(toks, Least(Positions(toks, LBrace)), Greatest(Positions(toks, RBrace)))

\* the result of the LLM path: the parsed object with its method, when it has a
\* primary_domain and a confidence for the log line; NoResult otherwise
NoResult == [raised |-> FALSE, method |-> "fallback"]
LlmResult(x) ==
    IF x.st # "ok" THEN NoResult
    ELSE IF ~(IsDict(x.v) /\ HasKey(x.v, K_primary_domain) /\ HasKey(x.v, K_confidence))
    THEN NoResult
    ELSE [raised |-> FALSE, method |-> "llm", result |-> x.v]
LlmPath(response) ==
    IF response = Raised THEN NoResult
    ELSE IF NoText(response) THEN NoResult
    ELSE IF Positions(response.toks, LBrace) = {} \/ Positions(response.toks, RBrace) = {}
    THEN NoResult
    ELSE LlmResult(json_loads(BraceSlice(response.toks)))

Classified(text, doc_type, llm_result) ==
    IF llm_result # NoResult THEN llm_result
    ELSE WithMethod(detect_domain_from_text(text, doc_type), "keyword")

\* classify_domain_with_llm(text, doc_type) with a module llm_extraction that
\* defines module_names: module_loads tells whether the module can be loaded,
\* response is what call_ollama gives (Raised when it raises)
ClassifyWith(module_names, text, doc_type, module_loads, response) ==
    IF ImportRaises(module_loads, module_names, {"call_ollama", "validate_json_response"})
    THEN Raised
    ELSE IF ~Truthy(text)
    THEN [raised |-> FALSE, primary_domain |-> S_Unknown, confidence |-> 0, method |-> "none"]
    ELSE Classified(text, doc_type, LlmPath(response))

classify_domain_with_llm(text, doc_type, module_loads, response) ==
    ClassifyWith(LLM_EXTRACTION_NAMES, text, doc_type, module_loads, response)

-----------------------------------------------------------------------------
(* The calls of classify_domain_with_llm as a state machine *)

S_python_developer == <<"P", "y", "t", "h", "o", "n", " ", "d", "e", "v", "e", "l", "o", "p", "e", "r">>
S_bank_loan == <<"b", "a", "n", "k", " ", "l", "o", "a", "n", "s", ",", " ", "S", "E", "O">>
S_react_api == <<"R", "e", "a", "c", "t", " ", "U", "I", ",", " ", "A", "P", "I", " ", "a", "p", "i">>
S_gardener == <<"g", "a", "r", "d", "e", "n">>
\* the documents to classify: absent, empty, without a keyword, with keywords
\* of one domain and of several
DocumentTexts ==
    {PyNone, PyStr(<<>>), PyStr(S_gardener), PyStr(S_Py), PyStr(S_python_developer),
     PyStr(S_bank_loan), PyStr(S_react_api)}

\* what call_ollama gives: it raises, it gives None, or a text: prose, braces in
\* the wrong order, an object that is cut off, an object without the fields of a
\* classification, a classification
ClassificationFields ==
    Fields(<<<<K_primary_domain, PyStr(S_IT_Software)>>, <<K_confidence, PyInt(90)>>>>)
LlmResponses ==
    {Raised, PyNone, PyText(<<>>), ProseText,
     PyText(<<RBrace, LBrace>>),
     PyText(<<LBrace, DQ(K_primary_domain), Colon, RBrace>>),
     PyText(Written(Fields(<<<<K_role, PyStr(S_Dev)>>>>), JsonStyle)),
     PyText(Written(ClassificationFields, JsonStyle)),
     PyText(Framed(Written(ClassificationFields, JsonStyle), "prose"))}

ClassifyCall(text, doc_type, module_loads, response) ==
    [fn |-> "classify_domain_with_llm", text |-> text, doc_type |-> doc_type,
     module_loads |-> module_loads, response |-> response]

InitClassify ==
    /\ \E text \in DocumentTexts, doc_type \in DocTypes, loads \in BOOLEAN, r \in LlmResponses :
          call = ClassifyCall(text, doc_type, loads, r)
    /\ ret = NotCalled
    /\ after = NotCalled
    /\ prev = NoPrev

ClassifyDomainWithLlm ==
    /\ call.fn = "classify_domain_with_llm"
    /\ ret = NotCalled
    /\ ret' = classify_domain_with_llm(call.text, call.doc_type, call.module_loads,
                                       call.response)
    /\ UNCHANGED <<call, after, prev>>

NextClassify == ClassifyDomainWithLlm
SpecClassify == InitClassify /\ [][NextClassify]_vars

\* the LLM path of the call gives no classification
LlmPathFails == ~call.module_loads \/ LlmPath(call.response) = NoResult

\* C19: classify_domain_with_llm does not raise and returns a classification
\* whose method is "llm" or "keyword"; when the LLM path gives nothing it is the
\* keyword classification of the text with method "keyword"
C19_ClassifyFallsBack ==
    (call.fn = "classify_domain_with_llm" /\ ret # NotCalled) =>
        /\ ret # Raised
        /\ ret.method \in {"llm", "keyword"}
        /\ LlmPathFails =>
              ret = WithMethod(detect_domain_from_text(call.text, call.doc_type), "keyword")

-----------------------------------------------------------------------------
(* The JSON text of a parsed value, and extraction applied to its own output *)

\* the key json.dumps writes for a dict key: a key that is no string is
\* written as the text of its JSON value
JsonKey(k) ==
    IF k = <<>> \/ Head(k) # "#" THEN k
    ELSE CASE Tail(k) = W_None -> W_null
           [] Tail(k) = W_True -> W_true
           [] Tail(k) = W_False -> W_false
           [] Tail(k) = S_inf -> W_Infinity
           [] Tail(k) = S_nan -> W_NaN
           [] OTHER -> Tail(k)

\* the keys in some order: the order of the pairs in the text does not change
\* what is read from it as long as no two keys are written alike
RECURSIVE KeysInOrder(_)
KeysInOrder(ks) ==
    IF ks = {} THEN <<>>
    ELSE LET k == CHOOSE x \in ks : TRUE IN <<k>> \o KeysInOrder(ks \ {k})

\* json.dumps raises TypeError for a set, wherever it is in the value
RECURSIVE CanDump(_)
CanDump(v) ==
    CASE IsSet(v) -> FALSE
      [] IsList(v) \/ v.t = "tuple" -> \A i \in DOMAIN v.items : CanDump(v.items[i])
      [] IsDict(v) -> \A k \in DOMAIN v.d : CanDump(v.d[k])
      [] OTHER -> TRUE

\* the tokens of json.dumps(v)
RECURSIVE JsonTokens(_)
JsonPairs(v, ks) ==
    [i \in DOMAIN ks |-> <<DQ(JsonKey(ks[i])), Colon>> \o JsonTokens(v.d[ks[i]])]
JsonTokens(v) ==
    CASE IsNone(v) -> <<Word(W_null)>>
      [] IsBool(v) -> <<Word(IF v.b THEN W_true ELSE W_false)>>
      [] IsInt(v) -> <<Num(IntToStr(v.n))>>
      [] IsFloat(v) -> <<Word(IF v.x = S_inf THEN W_Infinity ELSE W_NaN)>>
      [] IsStr(v) -> <<DQ(v.s)>>
      [] IsList(v) \/ v.t = "tuple" ->
            <<LBracket>> \o Joined([i \in DOMAIN v.items |-> JsonTokens(v.items[i])])
                         \o <<RBracket>>
      [] IsDict(v) -> <<LBrace>> \o Joined(JsonPairs(v, KeysInOrder(DOMAIN v.d))) \o <<RBrace>>

json_dumps(v) == IF CanDump(v) THEN PyText(JsonTokens(v)) ELSE Raised

CleanCall(response_text) == [fn |-> "clean_json_response", response_text |-> response_text]

InitClean ==
    /\ \E text \in ResponseTexts : call = CleanCall(text)
    /\ ret = NotCalled
    /\ after = NotCalled
    /\ prev = NoPrev

CleanJsonResponse ==
    /\ call.fn = "clean_json_response"
    /\ ret = NotCalled
    /\ ret' = clean_json_response(call.response_text)
    /\ UNCHANGED <<call, after, prev>>

\* the caller writes the object of a call that succeeded as JSON and hands the
\* text to clean_json_response again
CleanAgain ==
    /\ call.fn = "clean_json_response"
    /\ ret \notin {NotCalled, Raised, PyNone}
    /\ prev = NoPrev
    /\ json_dumps(ret) # Raised
    /\ call' = CleanCall(json_dumps(ret))
    /\ ret' = NotCalled
    /\ prev' = Remembered(call, ret)
    /\ UNCHANGED after

NextClean == CleanJsonResponse \/ CleanAgain
SpecClean == InitClean /\ [][NextClean]_vars

\* C20: clean_json_response applied to the JSON text of an object it returned
\* gives an object equal to that object
C20_CleanIdempotent ==
    (call.fn = "clean_json_response" /\ prev.called /\ ret # NotCalled) => ret = prev.ret

-----------------------------------------------------------------------------
(* Properties of the partial scores of matching_engine.py *)

ExperienceChecked == call.fn = "check_experience_match" /\ ret # NotCalled
BelowRequirement == RequiredYears(call) > 0 /\ CandidateYears(call) < RequiredYears(call)

\* C21: when the candidate's years are below a positive requirement,
\* check_experience_match reports met = false, percentage =
\* floor(100 * candidateYears / requiredYears) and score =
\* max(1, floor(35 * candidateYears / requiredYears))
C21_ShortfallFormula ==
    (ExperienceChecked /\ BelowRequirement)
        => /\ ret.met = FALSE
           /\ ret.percentage = (100 * CandidateYears(call)) \div RequiredYears(call)
           /\ ret.score = Max(1, (35 * CandidateYears(call)) \div RequiredYears(call))

-----------------------------------------------------------------------------
(* check_education_match called on its own: the education lists and the required
   degrees it is explored with *)

MaxDegrees == 2

S_MBA == <<"M", "B", "A">>

EducationEntries ==
    {Degree(S_PhD), Degree(S_Master), Degree(S_Bachelor), Degree(S_Diploma),
     PyStr(S_MBA), PyStr(S_High_School), PyDict(<<>>)}
EducationLists == {PyList(items) : items \in SeqsUpTo(EducationEntries, MaxDegrees)}
RequiredDegrees ==
    {PyStr(S_PhD), PyStr(S_Master), PyStr(S_Bachelor), PyStr(S_Diploma),
     PyStr(S_High_School), PyStr(S_Not_specified), PyNone, Absent}

EducationCall(education_list, required_degree) ==
    [fn |-> "check_education_match",
     resume_data |-> PyDict(K_education :> education_list),
     jd_data |-> Record(K_requiredEducation :> required_degree),
     custom_weights |-> PyNone]

EducationList(c) == c.resume_data.d[K_education].items
RequiredDegree(c) == Get(c.jd_data, K_requiredEducation, PyStr(S_not_specified))

InitEducation ==
    /\ \E e \in EducationLists, r \in RequiredDegrees : call = EducationCall(e, r)
    /\ ret = NotCalled
    /\ after = Args(call)
    /\ prev = NoPrev

CheckEducation ==
    /\ call.fn = "check_education_match"
    /\ ret = NotCalled
    /\ ret' = check_education_match(call.resume_data, call.jd_data)
    /\ UNCHANGED <<call, after, prev>>

\* the same candidate with the education entries in another order, against the
\* same JD
ReorderEducation ==
    /\ call.fn = "check_education_match"
    /\ ret # NotCalled
    /\ prev = NoPrev
    /\ Len(EducationList(call)) > 1
    /\ \E p \in Permutations(DOMAIN EducationList(call)) :
          call' = [call EXCEPT !.resume_data =
                      PyDict(K_education :> PyList([i \in DOMAIN p |-> EducationList(call)[p[i]]]))]
    /\ ret' = NotCalled
    /\ after' = Args(call')
    /\ prev' = Remembered(call, ret)

NextEducation == CheckEducation \/ ReorderEducation

SpecEducation == InitEducation /\ [][NextEducation]_vars

EducationChecked == call.fn = "check_education_match" /\ ret # NotCalled

\* the hierarchy level of one education entry
EntryLevel(edu_item) == normalize_education(EducationDegreeStr(edu_item)).level

\* the maximum hierarchy level over the entries, 0 for no entry
MaxEntryLevel(items) == Greatest({0} \cup {EntryLevel(items[i]) : i \in DOMAIN items})

CandidateLevel(c) == MaxEntryLevel(EducationList(c))
RequiredLevel(c) == normalize_education(RequiredDegree(c)).level

Overqualified(result, candidate_level, required_level) ==
    candidate_level > required_level
        => (result.isOverqualified /\ result.score = 25 /\ result.met)

\* C22: the candidate level that check_education_match uses is the maximum
\* hierarchy level over all education entries, so the result does not depend
\* on their order; whenever that level strictly exceeds the required level,
\* isOverqualified is true, the score is the full 25 and met is true
C22_HighestDegreeNoPenalty ==
    EducationChecked
        => /\ HighestOfList(call.resume_data.d[K_education]).level = CandidateLevel(call)
           /\ prev.called
                => [f \in {"met", "score", "percentage", "isOverqualified"} |-> ret[f]]
                     = [f \in {"met", "score", "percentage", "isOverqualified"} |-> prev.ret[f]]
           /\ Overqualified(ret, CandidateLevel(call), RequiredLevel(call))

\* C23: when the candidate's education level is below the required level, the
\* percentage is floor(100 * candidateLevel / requiredLevel) and the score is
\* floor(25 * candidateLevel / requiredLevel), raised to at least 1 only for a
\* candidate level above 0; a candidate of level 0 has education score 0
C23_EducationShortfall ==
    (EducationChecked /\ CandidateLevel(call) < RequiredLevel(call))
        => /\ ret.percentage = (100 * CandidateLevel(call)) \div RequiredLevel(call)
           /\ ret.score = IF CandidateLevel(call) > 0
                          THEN Max(1, (25 * CandidateLevel(call)) \div RequiredLevel(call))
                          ELSE 0

-----------------------------------------------------------------------------
(* check_skills_match called on its own: the skill lists it is explored with *)

MaxRequired == 3

S_python == <<"p", "y", "t", "h", "o", "n">>
S_Python3 == <<"P", "y", "t", "h", "o", "n", "3">>

\* the candidate lists: no skill, one skill, and pairs in both orders, among them
\* two names of equal confidence and a weaker match before or after a better one
CandidateSkillLists ==
    {PyList(<<>>), PyList(<<Skill(S_Python)>>), PyList(<<PyStr(S_pyton)>>),
     PyList(<<Skill(S_ReactJS)>>), PyList(<<PyStr(S_JavaScript)>>),
     PyList(<<PyStr(S_pyton), Skill(S_Python)>>), PyList(<<Skill(S_Python), PyStr(S_pyton)>>),
     PyList(<<Skill(S_Python), PyStr(S_python)>>), PyList(<<PyStr(S_python), Skill(S_Python)>>),
     PyList(<<Skill(S_ReactJS), PyStr(S_JavaScript)>>),
     PyList(<<PyStr(S_JavaScript), Skill(S_Python)>>),
     PyList(<<PyStr(S_pyton), PyStr(S_JavaScript)>>)}
JDSkillEntries == {PyStr(S_Python), PyStr(S_Python3), PyStr(S_React), PyStr(S_Java)}
JDSkillLists == {PyList(q) : q \in SeqsUpTo(JDSkillEntries, MaxRequired)}

SkillsCall(skills, required_skills) ==
    [fn |-> "check_skills_match",
     resume_data |-> PyDict(K_skills :> skills),
     jd_data |-> PyDict(K_requiredSkills :> required_skills),
     custom_weights |-> PyNone]

InitSkills ==
    /\ \E s \in CandidateSkillLists, r \in JDSkillLists : call = SkillsCall(s, r)
    /\ ret = NotCalled
    /\ after = Args(call)
    /\ prev = NoPrev

CheckSkills ==
    /\ call.fn = "check_skills_match"
    /\ ret = NotCalled
    /\ ret' = check_skills_match(call.resume_data, call.jd_data)
    /\ UNCHANGED <<call, after, prev>>

NextSkills == CheckSkills

SpecSkills == InitSkills /\ [][NextSkills]_vars

\* the required skills as check_skills_match reads them from the JD
RequiredOf(c) == RequiredSkills(c.jd_data.d[K_requiredSkills].items)

SkillsChecked == call.fn = "check_skills_match" /\ ret # NotCalled
SkillsRequired == SkillsChecked /\ RequiredOf(call) # <<>>

\* round(n / d) for n >= 0 and d > 0: to the nearest integer, a tie to the even one
RoundDiv(n, d) ==
    IF 2 * (n % d) > d \/ (2 * (n % d) = d /\ (n \div d) % 2 = 1) THEN (n \div d) + 1 ELSE n \div d

\* C24: for a non-empty required-skill list with m of r skills matched,
\* check_skills_match reports percentage = round(100 * m / r) and score =
\* round(40 * m / r), rounded to the nearest integer, the score raised to at
\* least 1 when m > 0 and 0 when m = 0, and met = (percentage >= 50)
C24_SkillsRounded ==
    SkillsRequired
        => /\ ret.percentage = RoundDiv(100 * Len(ret.matchedSkills), ret.requiredSkillsCount)
           /\ ret.score = IF Len(ret.matchedSkills) > 0
                          THEN Max(1, RoundDiv(40 * Len(ret.matchedSkills), ret.requiredSkillsCount))
                          ELSE 0
           /\ ret.met = (ret.percentage >= 50)

\* the candidates that match req_skill, by their position in the candidate list
MatchingCandidates(candidate_skills, req_skill) ==
    {j \in DOMAIN candidate_skills : find_skill_match(candidate_skills[j], req_skill).is_match}

\* the earliest of the matching candidates M whose confidence no other reaches
EarliestBest(candidate_skills, req_skill, M) ==
    Least({j \in M : \A k \in M :
              FracGE(find_skill_match(candidate_skills[j], req_skill).confidence,
                     find_skill_match(candidate_skills[k], req_skill).confidence)})

\* the entry of skillMatchDetails that names candidate j for req_skill
DetailOf(req_skill, cand_skill, m) ==
    [required |-> req_skill, matched |-> cand_skill, type |-> m.type,
     confidence |-> RoundHundredths(m.confidence)]

DetailOfIndex(candidate_skills, req_skill, j) ==
    DetailOf(req_skill, candidate_skills[j], find_skill_match(candidate_skills[j], req_skill))

\* C26: the match recorded in skillMatchDetails for a required skill is the
\* candidate of highest confidence among all the candidates that match it, the
\* earliest of them on a tie; it is determined by the candidate list and that
\* required skill alone, so one candidate may serve several required skills
C26_BestCandidatePerSkill ==
    SkillsRequired
        => \A i \in DOMAIN ret.skillMatchDetails :
              ret.skillMatchDetails[i]
                = DetailOfIndex(ret.allCandidateSkills, ret.skillMatchDetails[i].required,
                      EarliestBest(ret.allCandidateSkills, ret.skillMatchDetails[i].required,
                          MatchingCandidates(ret.allCandidateSkills,
                                             ret.skillMatchDetails[i].required)))

\* two different required skills are served by the same candidate, the second of
\* the list, although the first candidate matches both with a lower confidence
C26_Witness ==
    /\ SkillsRequired
    /\ Len(ret.allCandidateSkills) = 2
    /\ Len(ret.skillMatchDetails) >= 2
    /\ ret.skillMatchDetails[1].required # ret.skillMatchDetails[2].required
    /\ ret.skillMatchDetails[1].matched = ret.allCandidateSkills[2]
    /\ ret.skillMatchDetails[2].matched = ret.allCandidateSkills[2]
    /\ MatchingCandidates(ret.allCandidateSkills, ret.skillMatchDetails[1].required) = {1, 2}
    /\ MatchingCandidates(ret.allCandidateSkills, ret.skillMatchDetails[2].required) = {1, 2}

HasMatch(candidate_skills, req_skill) == MatchingCandidates(candidate_skills, req_skill) # {}

\* C30: for a non-empty required-skill list, matchedSkills and missingSkills
\* partition the required skills, with multiplicity and in JD order: a required
\* skill is in matchedSkills exactly when some candidate skill matches it and
\* in missingSkills otherwise, skillMatchDetails has one entry per matched
\* skill, and the two lengths add up to requiredSkillsCount
C30_MatchedMissingPartition ==
    SkillsRequired
        => /\ ret.matchedSkills
                = SelectSeq(RequiredOf(call), LAMBDA q : HasMatch(ret.allCandidateSkills, q))
           /\ ret.missingSkills
                = SelectSeq(RequiredOf(call), LAMBDA q : ~HasMatch(ret.allCandidateSkills, q))
           /\ Len(ret.skillMatchDetails) = Len(ret.matchedSkills)
           /\ \A i \in DOMAIN ret.skillMatchDetails :
                 ret.skillMatchDetails[i].required = ret.matchedSkills[i]
           /\ ret.requiredSkillsCount = Len(RequiredOf(call))
           /\ Len(ret.matchedSkills) + Len(ret.missingSkills) = ret.requiredSkillsCount

\* a JD that names one skill twice and another one between them: the first is
\* matched both times, the other is missing
C30_Witness ==
    /\ SkillsRequired
    /\ Len(RequiredOf(call)) = 3
    /\ RequiredOf(call)[1] = RequiredOf(call)[3]
    /\ Len(ret.matchedSkills) = 2
    /\ ret.matchedSkills[1] = ret.matchedSkills[2]
    /\ ret.missingSkills = <<RequiredOf(call)[2]>>

-----------------------------------------------------------------------------
(* find_skill_match called on its own: the pairs of skill names it is explored
   with *)

S_Cpp == <<"C", "+", "+">>
S_plus == <<"+", "+">>
S_React_js == <<"R", "e", "a", "c", "t", ".", "j", "s">>

SkillNames ==
    {S_Python, S_python, S_pyton, S_Python3, S_React, S_ReactJS, S_React_js, S_Java,
     S_JavaScript, S_SQL, S_Cpp, S_plus, <<>>}

SkillMatchCall(candidate_skill, required_skill) ==
    [fn |-> "find_skill_match", candidate_skill |-> candidate_skill,
     required_skill |-> required_skill]

InitSkillMatch ==
    /\ \E c \in SkillNames, r \in SkillNames : call = SkillMatchCall(c, r)
    /\ ret = NotCalled
    /\ after = <<call.candidate_skill, call.required_skill>>
    /\ prev = NoPrev

FindSkillMatch ==
    /\ call.fn = "find_skill_match"
    /\ ret = NotCalled
    /\ ret' = find_skill_match(call.candidate_skill, call.required_skill)
    /\ UNCHANGED <<call, after, prev>>

NextSkillMatch == FindSkillMatch

SpecSkillMatch == InitSkillMatch /\ [][NextSkillMatch]_vars

SkillMatched == call.fn = "find_skill_match" /\ ret # NotCalled

IsOutcome(result, is_match, strategy, confidence) ==
    /\ result.is_match = is_match
    /\ result.type = strategy
    /\ result.confidence.num * confidence.den = confidence.num * result.confidence.den

\* the first strategy that succeeds on the normalized names cand_norm and
\* req_norm, in the order exact, analogy, fuzzy, substring
FirstStrategy(result, cand_norm, req_norm, similarity) ==
    IF cand_norm = <<>> \/ req_norm = <<>> THEN IsOutcome(result, FALSE, "none", Frac(0, 1))
    ELSE IF cand_norm = req_norm THEN IsOutcome(result, TRUE, "exact", Frac(1, 1))
    ELSE IF GroupOf(cand_norm) # 0 /\ GroupOf(cand_norm) = GroupOf(req_norm)
    THEN IsOutcome(result, TRUE, "analogy", Frac(95, 100))
    ELSE IF FracGE(similarity, Frac(70, 100)) THEN IsOutcome(result, TRUE, "fuzzy", similarity)
    ELSE IF Len(cand_norm) > 3 /\ Len(req_norm) > 3
            /\ (Contains(cand_norm, req_norm) \/ Contains(req_norm, cand_norm))
    THEN IsOutcome(result, TRUE, "substring", Frac(88, 100))
    ELSE IsOutcome(result, FALSE, "none", Frac(0, 1))

\* C25: find_skill_match reports the first strategy that succeeds on the
\* normalized skills, in the order exact (confidence 1.0), analogy (0.95), fuzzy
\* (similarity ratio >= 0.70, the ratio as confidence), substring (containment
\* with both names longer than 3 characters, 0.88); when none succeeds, an empty
\* normalized skill included, the result is no match with strategy "none" and
\* confidence 0
C25_FirstStrategyWins ==
    SkillMatched
        => FirstStrategy(ret, normalize_skill(call.candidate_skill),
                         normalize_skill(call.required_skill),
                         SequenceRatio(normalize_skill(call.candidate_skill),
                                       normalize_skill(call.required_skill)))

-----------------------------------------------------------------------------
(* detect_domain_from_text called on its own: the texts are words, keywords of
   five domains and one word that is no keyword, joined by blanks *)

MaxWords == 3

KeywordWords ==
    {<<"a", "p", "i">>, <<"R", "e", "a", "c", "t">>, <<"S", "E", "O">>, <<"t", "a", "x">>,
     <<"b", "a", "n", "k">>, S_gardener}

RECURSIVE JoinWords(_)
JoinWords(ws) ==
    IF ws = <<>> THEN <<>>
    ELSE IF Len(ws) = 1 THEN ws[1]
    ELSE ws[1] \o <<" ">> \o JoinWords(Tail(ws))

KeywordTexts == {PyStr(JoinWords(ws)) : ws \in SeqsUpTo(KeywordWords, MaxWords)} \cup {PyNone}

DetectCall(text) == [fn |-> "detect_domain_from_text", text |-> text, doc_type |-> S_Resume]

InitDetect ==
    /\ \E t \in KeywordTexts : call = DetectCall(t)
    /\ ret = NotCalled
    /\ after = <<call.text, call.doc_type>>
    /\ prev = NoPrev

DetectDomainFromText ==
    /\ call.fn = "detect_domain_from_text"
    /\ ret = NotCalled
    /\ ret' = detect_domain_from_text(call.text, call.doc_type)
    /\ UNCHANGED <<call, after, prev>>

NextDetect == DetectDomainFromText

SpecDetect == InitDetect /\ [][NextDetect]_vars

DomainDetected == call.fn = "detect_domain_from_text" /\ ret # NotCalled

\* the keyword-occurrence count of every domain of the catalog in the text
DomainCounts(text) ==
    [d \in DOMAIN DOMAIN_NAMES |->
        IF Truthy(text) THEN KeywordCount(Lower(text.s), DOMAIN_KEYWORDS[d], 1) ELSE 0]

RECURSIVE SumCounts(_, _)
SumCounts(counts, d) == IF d > Len(counts) THEN 0 ELSE counts[d] + SumCounts(counts, d + 1)

\* the domain declared first among those of the highest count
TopDomain(counts, top) == Least({d \in DOMAIN counts : counts[d] = top})

KeywordClassified(result, counts, top, total) ==
    /\ (result.primary_domain = S_Unknown) <=> (total = 0)
    /\ total = 0 => result.confidence = 0
    /\ total > 0 => /\ result.primary_domain = DOMAIN_NAMES[TopDomain(counts, top)]
                    /\ result.confidence = RoundDiv(100 * top, total)
    /\ result.confidence \in 0..100

KeywordClassifiedOf(result, counts) ==
    KeywordClassified(result, counts, Greatest({counts[d] : d \in DOMAIN counts}),
                      SumCounts(counts, 1))

\* C27: detect_domain_from_text returns as primary domain the domain of the
\* highest keyword-occurrence count, the one declared first in the catalog on a
\* tie; it returns "Unknown", with confidence 0, exactly when no keyword of any
\* domain occurs; confidence = round(100 * topCount / totalCount), within 0..100
C27_KeywordClassification ==
    DomainDetected => KeywordClassifiedOf(ret, DomainCounts(call.text))

-----------------------------------------------------------------------------
(* The domain adjustment of calculate_match *)

\* C29: in every MatchResult that calculate_match returns, overallScore is at
\* most rawOverallScore: the domain adjustment keeps or lowers the raw score,
\* for every compatibility score and every weights argument
C29_AdjustmentNeverRaises ==
    (call.fn = "calculate_match" /\ Returned)
        => /\ ret.overallScore <= ret.rawOverallScore
           /\ \A c \in 0..MaxScore : calculate_domain_adjustment_factor(c) <= 100

\* custom weights are in force and a compatibility below 85 lowers a raw score
\* above 0
C29_Witness ==
    /\ call.fn = "calculate_match"
    /\ Returned
    /\ call.custom_weights = Weights(50, 25, 25)
    /\ ret.criteriaAnalysis.domainMatch.compatibility < 85
    /\ ret.rawOverallScore > 0
    /\ ret.overallScore < ret.rawOverallScore

-----------------------------------------------------------------------------
(* llm_extraction.py: call_llama and the module's extraction_cache *)

MaxRetries == 2

\* extraction_cache = init_cache(): a dict from the digest of a prompt to the
\* response stored for it
init_cache == <<>>

\* hashlib.md5(prompt.encode()).hexdigest() for the prompts of the model
Md5(prompt) ==
    CASE prompt = <<"A">> -> "7fc56270e7a70fa81a5935b72eacbe29"
      [] prompt = <<"B">> -> "9d5ed678fe57bcca610140957afab571"

\* validate_json_response(response_text): is_valid of the pair it returns
validate_json_response(response_text) ==
    ~(response_text = <<>> \/ ~Contains(response_text, <<"{">>))

\* is_valid of validate_func(response_text); no validate_func accepts every text
IsValid(validate_func, response_text) ==
    CASE validate_func = "None" -> TRUE
      [] validate_func = "validate_json_response" -> validate_json_response(response_text)

\* what client.chat_completion does in one attempt: it gives a content or raises
\* an error whose message decides how call_llama goes on
ApiContent(content) == [kind |-> "content", content |-> content]
ApiError(kind) == [kind |-> kind]
ErrorKinds == {"rate limit", "connection", "unauthorized", "gated", "other"}

LlamaReturn(response, cache) == [ret |-> [raised |-> FALSE, response |-> response], cache |-> cache]
LlamaRaise(cache) == [ret |-> Raised, cache |-> cache]

\* the retry loop of call_llama from the given attempt on; answers[i] is what the
\* API does in attempt i - 1
RECURSIVE Attempts(_, _, _, _, _, _)

\* the except branch: an authorization or model access error is raised at once,
\* any other error after the last attempt
AfterError(prompt_hash, max_retries, validate_func, cache, answers, attempt) ==
    IF answers[attempt + 1].kind \in {"unauthorized", "gated"} THEN LlamaRaise(cache)
    ELSE IF attempt < max_retries - 1
    THEN Attempts(prompt_hash, max_retries, validate_func, cache, answers, attempt + 1)
    ELSE LlamaRaise(cache)

\* the try branch for the stripped content response_text
AfterResponse(prompt_hash, max_retries, validate_func, cache, answers, attempt, response_text) ==
    IF response_text = <<>>
    THEN Attempts(prompt_hash, max_retries, validate_func, cache, answers, attempt + 1)
    ELSE IF validate_func # "None" /\ ~IsValid(validate_func, response_text)
    THEN (IF attempt < max_retries - 1
          THEN Attempts(prompt_hash, max_retries, validate_func, cache, answers, attempt + 1)
          ELSE LlamaReturn(PyNone, cache))
    ELSE LlamaReturn(PyStr(response_text), (prompt_hash :> response_text) @@ cache)

Attempts(prompt_hash, max_retries, validate_func, cache, answers, attempt) ==
    IF attempt >= max_retries THEN LlamaReturn(PyNone, cache)
    ELSE IF answers[attempt + 1].kind = "content"
    THEN AfterResponse(prompt_hash, max_retries, validate_func, cache, answers, attempt,
                       Strip(answers[attempt + 1].content))
    ELSE AfterError(prompt_hash, max_retries, validate_func, cache, answers, attempt)

\* call_llama from the cache lookup on
CachedOrCalled(prompt_hash, max_retries, validate_func, cache, answers) ==
    IF prompt_hash \in DOMAIN cache THEN LlamaReturn(PyStr(cache[prompt_hash]), cache)
    ELSE Attempts(prompt_hash, max_retries, validate_func, cache, answers, 0)

\* call_llama(prompt, max_retries, validate_func) with the module's cache and the
\* answers of the API; the API key is set, the module does not load without it
call_llama(prompt, max_retries, validate_func, cache, answers) ==
    CachedOrCalled(Md5(prompt), max_retries, validate_func, cache, answers)

-----------------------------------------------------------------------------
(* Sequences of calls of call_llama that share the cache *)

Prompts == {<<"A">>, <<"B">>}
ValidateFuncs == {"None", "validate_json_response"}

\* the contents the API gives for a prompt: blank, prose, a JSON object; each
\* names the prompt it answers
ApiContents(prompt) ==
    {<<" ">>, <<"n", "o", " ">> \o prompt, <<" ", "{">> \o prompt \o <<"}", " ">>}
ApiAnswers(prompt) == {ApiContent(c) : c \in ApiContents(prompt)} \cup {ApiError(k) : k \in ErrorKinds}

LlamaCall(prompt, max_retries, validate_func) ==
    [fn |-> "call_llama", prompt |-> prompt, max_retries |-> max_retries,
     validate_func |-> validate_func]
LlamaCalls ==
    {LlamaCall(p, n, v) : p \in Prompts, n \in 0..MaxRetries, v \in ValidateFuncs}

\* after holds extraction_cache
InitLlama ==
    /\ call \in LlamaCalls
    /\ ret = NotCalled
    /\ after = init_cache
    /\ prev = NoPrev

CallLlama ==
    /\ call.fn = "call_llama"
    /\ ret = NotCalled
    /\ \E answers \in [1..call.max_retries -> ApiAnswers(call.prompt)] :
          \E out \in {call_llama(call.prompt, call.max_retries, call.validate_func, after, answers)} :
              /\ ret' = out.ret
              /\ after' = out.cache
    /\ UNCHANGED <<call, prev>>

\* the next call of the sequence
NextLlamaCall ==
    /\ call.fn = "call_llama"
    /\ ret # NotCalled
    /\ call' \in LlamaCalls
    /\ ret' = NotCalled
    /\ UNCHANGED <<after, prev>>

NextLlama == CallLlama \/ NextLlamaCall

SpecLlama == InitLlama /\ [][NextLlama]_vars

\* call_llama was given a validate_func and returned a response that is not None
ValidatedResponse ==
    /\ call.fn = "call_llama"
    /\ ret # NotCalled
    /\ ret # Raised
    /\ call.validate_func # "None"
    /\ ret.response # PyNone

\* C28: across any sequence of calls that share the cache, a response that
\* call_llama returns for prompt p when given a validate_func is non-empty, was
\* produced by the API for exactly prompt p, and satisfies that validate_func,
\* also when it is served from the cache
C28_ValidatedResponses ==
    ValidatedResponse
        => /\ ret.response.s # <<>>
           /\ \E c \in ApiContents(call.prompt) : ret.response.s = Strip(c)
           /\ IsValid(call.validate_func, ret.response.s)

=============================================================================
